---- MODULE Spec2Model ----
(***************************************************************************)
(* ToaruOS ATA / ATAPI block driver (Bus-Master DMA variant).              *)
(*                                                                         *)
(* Two specifications share this module:                                   *)
(*   Spec      the byte-range adapter (read_ata, write_ata, read_atapi)    *)
(*             run by one caller; a sector transfer is one step.           *)
(*   SpecXfer  the sector transport run by two callers and the two IRQ     *)
(*             handlers: ata_lock, the port phases of one transfer, the    *)
(*             ATAPI sleep / wakeup protocol and the write-verify retry.   *)
(*                                                                         *)
(* Sizes are scaled: a sector holds SectorSize bytes instead of 512, the   *)
(* unsigned 64-bit block counters are counted modulo BlockModulus.         *)
(***************************************************************************)
EXTENDS Integers, Sequences, FiniteSets, TLC

\* ---------------------------------------------------------------- bounds
\* bytes per PATA sector (ATA_SECTOR_SIZE, scaled down from 512)
SectorSize == 3
\* sectors of the PATA drive (identity.sectors_28 of the modelled disk)
NumSectors == 3
\* bytes per ATAPI block (atapi_sector_size, scaled down from 2048)
AtapiSectorSize == 2
\* last block of the medium (atapi_lba)
AtapiLba == 2
\* largest size a caller asks for
MaxSize == 6
\* byte-range calls made one after the other on one node
MaxCalls == 2
\* entries kept in the log of sector operations of one call
MaxLog == 6
\* write attempts counted in one ata_device_write_sector_retry
MaxAttempts == 2
\* largest iteration cap handed to ata_status_wait (stands for 10000)
MaxTimeout == 5

\* unsigned long long start_block / end_block, counted modulo this
BlockModulus == 16

Min(a, b) == IF a < b THEN a ELSE b

\* ------------------------------------------------------------ byte values
\* byte a of the PATA disk before any call
InitByte(a) == 1 + a
\* byte a of the ATAPI medium
DiscByte(a) == 30 + a
\* byte i of the data a caller hands to write_ata: all bytes different
\* (pattern 0) or all bytes the same, as in a fill with 0xAA (pattern 1)
CallerByte(pat, i) == IF pat = 0 THEN 60 + i ELSE 60
Patterns == {0, 1}
\* what memory outside the caller's buffer, or never initialised, may hold
JunkBytes == {90, 91}
\* a byte of the caller's read buffer the driver has not stored into
Untouched == 0 - 1

\* caller memory modelled around the buffer pointer: the buffer proper is
\* [0, size); everything from MemLen on is one far-away cell
MemLen == MaxSize + 2 * SectorSize

VARIABLES
    \* ---- devices
    disk,          \* PATA medium: sector -> offset in sector -> byte
    dma_start,     \* dev->dma_start: the bus-master buffer (one sector)
    \* ---- byte-range adapter (Spec)
    pc,            \* position of the caller in read_ata/write_ata/read_atapi
    cur,           \* the call in progress: op, offset, size as passed, junk
    prev,          \* the call that returned before it
    ncalls,        \* calls started so far
    start_block, end_block, x_offset, size,   \* locals of the call
    buffer,        \* caller's memory at `buffer`
    ret,           \* value returned
    ops,           \* log of sector operations of the call in progress
    xfers,         \* log of the sector transfers issued to the device
    touched,       \* buffer indices stored into (read) or loaded (write)
    tmp,           \* the scratch sector of the prefix / postfix step
    attempts,      \* write attempts of the current write_sector_retry
    heap               \* scratch sectors: which are allocated; whether a free or malloc went wrong

VARIABLES
    \* ---- sector transport (SpecXfer)
    lock,              \* ata_lock: the caller holding it, or "free"
    xpc,               \* position of each caller in its sector transfer
    xreq,              \* each caller's transfer: kind, dev, lba, buf
    read_buf,          \* each caller's destination sector (buf / read_buf)
    atapi_in_progress, \* the flag the IRQ handlers consult
    atapi_waiter,      \* callers asleep on the ATAPI wait queue
    irq,               \* interrupt raised and not yet serviced, per line
    hpc,               \* position of each IRQ handler
    hobs,              \* atapi_in_progress as the handler read it
    woke,              \* the handler's last run called wakeup_queue
    hw,                \* protocol state of each device
    hw_lba,            \* LBA of the command each device executes
    bm_int,            \* bus-master status bit 2 of each PATA device
    media,             \* contents of each PATA device
    xdma,              \* dev->dma_start of each PATA device
    open,              \* callers with a hardware transaction in progress
    last2,             \* each caller's last two completed sector transfers
    retried,           \* the caller's write-verify compare has failed once
    cmds,              \* commands and data phases each caller put on the bus
    packet,            \* the twelve command bytes each caller last sent after PACKET
    sleeps,            \* how many times each caller has called sleep_on(atapi_waiter)
    rlog,              \* bus-master and port events of each caller's current DMA read
    faulted            \* drives that have ended a READ DMA with ERR or DF

xvars == <<lock, xpc, xreq, read_buf, atapi_in_progress, atapi_waiter, irq, hpc, hobs,
           woke, hw, hw_lba, bm_int, media, xdma, open, last2, retried, cmds,
           packet, sleeps, rlog, faulted>>

VARIABLES
    \* ---- module initialisation and the published nodes (SpecInit)
    islot,             \* slot ata_initialize is at: 0 before, 1..4, 5 when done
    ata_drive_char,    \* next hard-disk letter, counted from 'a' = 0
    cdrom_number,      \* next optical-drive number
    identity,          \* dev->identity of each slot (the two sector counts)
    atapi_geom,        \* dev->atapi_lba and dev->atapi_sector_size of each slot
    dev_is_atapi,      \* dev->is_atapi of each slot
    bar4,              \* dev->bar4 of each slot
    dma_prdt,          \* the slot's PRDT and DMA buffer have been allocated
    pci_bar4,          \* what the controller's PCI BAR4 register reads
    cursig,            \* the (LBA1, LBA2) signature the last probed slot answered
    probe,             \* how the capacity probe of each ATAPI slot ended
    mounts,            \* vfs_mount calls so far, in order: path and node
    lastop             \* the last node operation: what it returned and put on the bus

ivars == <<islot, ata_drive_char, cdrom_number, identity, atapi_geom, dev_is_atapi,
           bar4, dma_prdt, pci_bar4, cursig, probe, mounts, lastop>>

avars == <<disk, dma_start, pc, cur, prev, ncalls, start_block, end_block,
           x_offset, size, buffer, ret, ops, xfers, touched, tmp, attempts, heap>>

VARIABLES
    \* ---- one ata_status_wait (SpecWait)
    sw_pc,             \* "idle", "polling" (in the while loop), "returned"
    sw_timeout,        \* the timeout argument
    sw_i,              \* the loop counter i of the capped loop
    sw_reads,          \* status-port reads made by the call so far
    sw_status          \* the status byte last read (the return value at the end)

wvars == <<sw_pc, sw_timeout, sw_i, sw_reads, sw_status>>

VARIABLES
    \* ---- two callers writing to one sector (SpecRmw)
    m_disk,            \* the sector on the medium
    m_pc,              \* where each caller is: idle, read, write, verify, done
    m_kind,            \* what each caller writes: part of the sector, or all of it
    m_buf,             \* the sector each caller hands to the write (tmp, or its buffer)
    m_rb               \* each caller's read_buf of the write-verify retry

mvars == <<m_disk, m_pc, m_kind, m_buf, m_rb>>

VARIABLES
    \* ---- ata_device_read_sector of the legacy PIO driver (SpecPio)
    pio_lock,          \* the PIO driver's ata_lock: the caller holding it, or "free"
    ppc,               \* where each caller is: idle, lock, command, wait, returned
    errors,            \* each caller's local `errors`
    pio_cmds,          \* READ PIO commands the call has issued
    pio_words,         \* data words the call has read from the data port
    pio_unlocks        \* spin_unlock(ata_lock) calls of the call

lvars == <<pio_lock, ppc, errors, pio_cmds, pio_words, pio_unlocks>>

VARIABLES
    \* ---- write_ata of the legacy PIO driver (SpecLegacy)
    lg_pc,             \* idle, prefix, postfix, loop, returned
    lg_req,            \* offset and size as passed; the byte beyond the caller's buffer
    lg_size,           \* size after the clamp
    lg_start_block, lg_end_block, lg_x_offset,   \* locals of the call
    lg_disk,           \* the medium
    lg_writes          \* sectors handed to ata_device_write_sector_retry, in order

gvars == <<lg_pc, lg_req, lg_size, lg_start_block, lg_end_block, lg_x_offset, lg_disk, lg_writes>>

VARIABLES
    \* ---- the CPU's interrupt enable across a sector call (SpecIrq)
    int_on,            \* the interrupt-enable flag of the calling CPU
    sync_depth,        \* nesting depth kept by IRQ_OFF / IRQ_RES
    iq_pc,             \* idle, r_setup, r_spin, r_off, w_off, w_attempt, w_res, returned
    iq_path,           \* "dma_read", "dma_read_atapi" (returns at once), "pio_write_retry"
    iq_entry,          \* int_on when the call was entered
    iq_polls,          \* spin polls / write attempts made, counted up to MaxAttempts
    iq_irq             \* the drive's interrupt during the call: none, pending, served

qvars == <<int_on, sync_depth, iq_pc, iq_path, iq_entry, iq_polls, iq_irq>>

VARIABLES
    \* ---- the unix pipe (SpecPipe)
    ring,              \* self->buffer: the unread bytes, oldest first
    read_closed,       \* self->read_closed
    write_closed,      \* self->write_closed
    rd_pc,             \* reader: idle, loop, ring_read, returned
    rd_size,           \* size passed to read_unixpipe
    rd_read,           \* the local `read`
    rd_buf,            \* the reader's buffer
    rd_ret,            \* what the last read_unixpipe returned
    rd_taken,          \* bytes the call in progress has taken out of the ring
    wr_pc,             \* writer: idle, loop, ring_write, returned
    wr_data,           \* the bytes passed to write_unixpipe
    wr_written,        \* the local `written`
    wr_ret,            \* what the last write_unixpipe returned
    wr_sig,            \* the call sent SIGPIPE to its process
    wr_entry_closed,   \* read_closed when the call was entered
    written_all,       \* every byte put into the ring, in order
    delivered          \* every byte returned to a reader, in order

pvars == <<ring, read_closed, write_closed, rd_pc, rd_size, rd_read, rd_buf, rd_ret, rd_taken,
           wr_pc, wr_data, wr_written, wr_ret, wr_sig, wr_entry_closed, written_all, delivered>>

ovars == <<lvars, gvars, qvars, pvars>>

\* ------------------------------------------------------------- capacities
\* the hard disk behind the node of the byte-range calls: the primary master
hda == identity["pm"]
cdrom == [atapi_lba |-> AtapiLba, atapi_sector_size |-> AtapiSectorSize]

ata_max_offset_28(dev) == dev.sectors_28 * SectorSize

ata_max_offset(dev) ==
    LET sectors == IF dev.sectors_48 # 0 THEN dev.sectors_48 ELSE dev.sectors_28
    IN  sectors * SectorSize

atapi_max_offset(dev) ==
    IF dev.atapi_lba = 0 THEN 0 ELSE (dev.atapi_lba + 1) * dev.atapi_sector_size

IsAtapi(op) == op = "read_atapi"
MaxOffsetOf(op) == IF IsAtapi(op) THEN atapi_max_offset(cdrom) ELSE ata_max_offset(hda)
SectorSizeOf(op) == IF IsAtapi(op) THEN cdrom.atapi_sector_size ELSE SectorSize

InitDisk == [s \in 0..(NumSectors - 1) |-> [k \in 0..(SectorSize - 1) |-> InitByte(s * SectorSize + k)]]
DiscBlock(lba) == [k \in 0..(AtapiSectorSize - 1) |-> DiscByte(lba * AtapiSectorSize + k)]

\* ------------------------------------------------------- sector transfers
\* What one ata_device_read_sector leaves in the DMA buffer: the sector, or,
\* for an LBA past the end (command aborted, nothing transferred), what the
\* buffer held before.
DmaAfterRead_Stale(d, dma, lba) == dma

DmaAfterRead(d, dma, lba) == IF lba < NumSectors THEN d[lba] ELSE dma

\* The medium after one ata_device_write_sector: an LBA past the end stores
\* nothing.
DiskAfterWrite(d, lba, data) == IF lba < NumSectors THEN [d EXCEPT ![lba] = data] ELSE d

buffer_compare_Equal(ptr1, ptr2) == 0

\* buffer_compare: 0 when the two sectors are equal, 1 otherwise
buffer_compare(ptr1, ptr2) == IF \A k \in 0..(SectorSize - 1) : ptr1[k] = ptr2[k] THEN 0 ELSE 1

\* ------------------------------------------------------------ buffer model
\* caller memory at index i; beyond the caller's size bytes it is junk
BufAt(i) == IF i < MemLen THEN buffer[i] ELSE cur.junk

StoreAt_FromStart(buf, base, src, from, n) ==
    [i \in DOMAIN buf |-> IF i >= base /\ i < base + n THEN src[i - base] ELSE buf[i]]

\* memcpy(buffer + base, src + from, n)
StoreAt(buf, base, src, from, n) ==
    [i \in DOMAIN buf |-> IF i >= base /\ i < base + n THEN src[from + (i - base)] ELSE buf[i]]

\* indices base .. base+n-1, the far ones folded into MemLen
Span(base, n) == {Min(i, MemLen) : i \in base..(base + n - 1)}

Log(entry) == IF Len(ops) < MaxLog THEN Append(ops, entry) ELSE ops

Bump(n) == Min(n + 1, MaxAttempts)

LogXfers(entries) ==
    LET all == xfers \o entries
    IN  IF Len(all) <= 3 * MaxLog THEN all ELSE SubSeq(all, 1, 3 * MaxLog)

\* (offset + size - 1) / sector size, stored in an unsigned long long. For
\* offset + size = 0 the result depends on koff_t, declared outside these
\* files: unsigned, the subtraction wraps to the largest block number;
\* signed, -1 / S truncates to 0.
EndBlocks(offset, sz, S) ==
    IF offset + sz = 0 THEN {0, BlockModulus - 1} ELSE {(offset + sz - 1) \div S}

\* ------------------------------------------------- byte-range adapter
NoData == [i \in {} |-> 0]
NoTmp == [k \in {} |-> 0]
NoCall == [op |-> "none", offset |-> 0, size |-> 0, ret |-> 0, data |-> NoData, disk0 |-> InitDisk]

Ops == {"read_ata", "write_ata", "read_atapi"}

\* the first ret bytes a read left in the caller's buffer
ReadResult == [i \in 0..(ret - 1) |-> buffer[i]]

\* the data the caller of write_ata passes: what the read before it
\* returned, or fresh bytes
WriteData(sz, pat) ==
    IF pc = "returned" /\ cur.op # "write_ata"
    THEN [i \in 0..(Min(ret, sz) - 1) |-> buffer[i]]
    ELSE [i \in 0..(sz - 1) |-> CallerByte(pat, i)]

Clamp_Off(offset, sz, max) == sz

\* if (offset + size > max) size = max - offset;
Clamp(offset, sz, max) == IF offset + sz > max THEN max - offset ELSE sz

\* entry of read_ata / write_ata / read_atapi up to the clamp
Call(op, offset, sz, j, eb, pat) ==
    /\ pc \in {"idle", "returned"}
    /\ UNCHANGED <<xvars, ivars, wvars, mvars, ovars>>
    /\ ncalls < MaxCalls
    /\ pc = "returned" => (offset = cur.offset /\ sz = cur.size /\ IsAtapi(op) = IsAtapi(cur.op))
    /\ LET S == SectorSizeOf(op)
           max == MaxOffsetOf(op)
           data == WriteData(sz, pat)
       IN  /\ eb \in EndBlocks(offset, sz, S)
           /\ ncalls' = ncalls + 1
           /\ prev' = IF pc = "returned"
                      THEN [op |-> cur.op, offset |-> cur.offset, size |-> cur.size, ret |-> ret,
                            data |-> IF cur.op = "write_ata" THEN cur.data ELSE ReadResult,
                            disk0 |-> cur.disk0]
                      ELSE NoCall
           /\ cur' = [op |-> op, offset |-> offset, size |-> sz, junk |-> j,
                      data |-> IF op = "write_ata" THEN data ELSE NoData, disk0 |-> disk]
           /\ buffer' = [i \in 0..(MemLen - 1) |->
                            IF op = "write_ata"
                            THEN (IF i \in DOMAIN data THEN data[i] ELSE j)
                            ELSE Untouched]
           /\ start_block' = offset \div S
           /\ end_block' = eb
           /\ x_offset' = 0
           /\ ops' = <<>>
           /\ xfers' = <<>>
           /\ touched' = {}
           /\ tmp' = NoTmp
           /\ attempts' = 0
           /\ UNCHANGED heap
           /\ IF offset > max
              THEN /\ pc' = "returned"
                   /\ ret' = 0
                   /\ size' = sz
              ELSE /\ pc' = "prefix"
                   /\ ret' = 0
                   /\ size' = Clamp(offset, sz, max)
           /\ UNCHANGED <<disk, dma_start>>

\* whether the drive may answer a sector read of this operation with ERR: an
\* ATAPI drive may at any of the polls of ata_device_read_sector_atapi; the
\* PATA read path never looks at ERR
SectorErr(op) == IF IsAtapi(op) THEN BOOLEAN ELSE {FALSE}

\* a block past atapi_lba always ends in ERR
ReadFails(op, lba, err) == IsAtapi(op) /\ (err \/ lba > cdrom.atapi_lba)

\* the sector buffer after ata_device_read_sector / _atapi(lba) stored into
\* it; `before` is what it held. An ATAPI read that ends in ERR jumps to
\* atapi_error_on_read_setup and stores nothing.
AfterSectorRead(op, lba, before, err) ==
    IF IsAtapi(op)
    THEN (IF ReadFails(op, lba, err) THEN before ELSE DiscBlock(lba))
    ELSE DmaAfterRead(disk, dma_start, lba)

\* dev->dma_start after that read
DmaAfter(op, lba) == IF IsAtapi(op) THEN dma_start ELSE DmaAfterRead(disk, dma_start, lba)

NoHeap == [live |-> {}, bad |-> FALSE]

\* b = malloc(ATA_SECTOR_SIZE); a pointer that still held a live sector
\* loses it
Malloc(h, b) == [live |-> h.live \cup {b}, bad |-> h.bad \/ b \in h.live]

FreeScratch_Leak(h, b) == h

\* free(b); freeing a sector that is not live is a double free
FreeScratch(h, b) == [live |-> h.live \ {b}, bad |-> h.bad \/ b \notin h.live]

\* a freshly malloc'ed sector
Fresh(S) == [k \in 0..(S - 1) |-> cur.junk]

\* if (offset % S) { ... }: the partial first sector
Prefix ==
    /\ pc = "prefix"
    /\ UNCHANGED <<xvars, ivars, wvars, mvars, ovars>>
    /\ \E err \in SectorErr(cur.op) : LET S == SectorSizeOf(cur.op)
           off == cur.offset % S
           prefix_size == S - off
           sec == AfterSectorRead(cur.op, start_block, Fresh(S), err)
       IN  IF off = 0
           THEN /\ pc' = "postfix"
                /\ UNCHANGED <<disk, dma_start, cur, prev, ncalls, start_block, end_block,
                               x_offset, size, buffer, ret, ops, xfers, touched, tmp, attempts, heap>>
           ELSE /\ dma_start' = DmaAfter(cur.op, start_block)
                /\ xfers' = LogXfers(<<[dir |-> "r", lba |-> start_block]>>)
                /\ ops' = Log([kind |-> "prefix", lba |-> start_block, bytes |-> prefix_size,
                                 err |-> ReadFails(cur.op, start_block, err)])
                /\ touched' = touched \cup Span(0, prefix_size)
                /\ IF cur.op = "write_ata"
                   THEN /\ tmp' = [k \in 0..(S - 1) |-> IF k >= off THEN BufAt(k - off) ELSE sec[k]]
                        /\ pc' = "prefix_w"
                        /\ attempts' = 0
                        /\ heap' = Malloc(heap, "tmp")
                        /\ UNCHANGED <<buffer, x_offset, start_block>>
                   ELSE /\ buffer' = StoreAt(buffer, 0, sec, off, prefix_size)
                        /\ x_offset' = x_offset + prefix_size
                        /\ start_block' = (start_block + 1) % BlockModulus
                        /\ pc' = "postfix"
                        /\ heap' = FreeScratch(Malloc(heap, "tmp"), "tmp")
                        /\ UNCHANGED <<tmp, attempts>>
                /\ UNCHANGED <<disk, cur, prev, ncalls, end_block, size, ret>>

\* if ((offset + size) % S && start_block <= end_block) { ... }: the
\* partial last sector
Postfix ==
    /\ pc = "postfix"
    /\ UNCHANGED <<xvars, ivars, wvars, mvars, ovars>>
    /\ \E err \in SectorErr(cur.op) : LET S == SectorSizeOf(cur.op)
           postfix_size == (cur.offset + size) % S
           sec == AfterSectorRead(cur.op, end_block, Fresh(S), err)
       IN  IF ~(postfix_size # 0 /\ start_block <= end_block)
           THEN /\ pc' = "loop"
                /\ UNCHANGED <<disk, dma_start, cur, prev, ncalls, start_block, end_block,
                               x_offset, size, buffer, ret, ops, xfers, touched, tmp, attempts, heap>>
           ELSE /\ dma_start' = DmaAfter(cur.op, end_block)
                /\ xfers' = LogXfers(<<[dir |-> "r", lba |-> end_block]>>)
                /\ ops' = Log([kind |-> "postfix", lba |-> end_block, bytes |-> postfix_size,
                                 err |-> ReadFails(cur.op, end_block, err)])
                /\ touched' = touched \cup Span(size - postfix_size, postfix_size)
                /\ IF cur.op = "write_ata"
                   THEN /\ tmp' = [k \in 0..(S - 1) |->
                                     IF k < postfix_size THEN BufAt(size - postfix_size + k) ELSE sec[k]]
                        /\ pc' = "postfix_w"
                        /\ attempts' = 0
                        /\ heap' = Malloc(heap, "tmp")
                        /\ UNCHANGED <<buffer, end_block>>
                   ELSE /\ buffer' = StoreAt(buffer, size - postfix_size, sec, 0, postfix_size)
                        /\ end_block' = (end_block - 1) % BlockModulus
                        /\ pc' = "loop"
                        /\ heap' = FreeScratch(Malloc(heap, "tmp"), "tmp")
                        /\ UNCHANGED <<tmp, attempts>>
                /\ UNCHANGED <<disk, cur, prev, ncalls, start_block, x_offset, size, ret>>

\* one iteration of while (start_block <= end_block) { ... }
Loop ==
    /\ pc = "loop"
    /\ start_block <= end_block
    /\ UNCHANGED <<xvars, ivars, wvars, mvars, ovars>>
    /\ \E err \in SectorErr(cur.op) : LET S == SectorSizeOf(cur.op)
           before == [k \in 0..(S - 1) |-> BufAt(x_offset + k)]
           sec == AfterSectorRead(cur.op, start_block, before, err)
       IN  /\ ops' = Log([kind |-> "full", lba |-> start_block, bytes |-> S,
                            err |-> ReadFails(cur.op, start_block, err)])
           /\ touched' = touched \cup Span(x_offset, S)
           /\ IF cur.op = "write_ata"
              THEN /\ pc' = "loop_w"
                   /\ attempts' = 0
                   /\ UNCHANGED <<buffer, x_offset, start_block, dma_start, xfers>>
              ELSE /\ buffer' = StoreAt(buffer, x_offset, sec, 0, S)
                   /\ dma_start' = DmaAfter(cur.op, start_block)
                   /\ xfers' = LogXfers(<<[dir |-> "r", lba |-> start_block]>>)
                   /\ x_offset' = Min(x_offset + S, MemLen)
                   /\ start_block' = (start_block + 1) % BlockModulus
                   /\ pc' = "loop"
                   /\ UNCHANGED attempts
           /\ UNCHANGED <<disk, cur, prev, ncalls, end_block, size, ret, tmp, heap>>

\* the sector write_ata hands to ata_device_write_sector_retry: the scratch
\* sector of the prefix / postfix step, or the caller's bytes at x_offset
AttemptBuf ==
    IF pc = "loop_w" THEN [k \in 0..(SectorSize - 1) |-> BufAt(x_offset + k)] ELSE tmp

RetryAgain_Capped(cmp, n) == cmp # 0 /\ n < MaxAttempts

\* } while (buffer_compare(buf, read_buf, ATA_SECTOR_SIZE)); the number n of
\* attempts made so far plays no part in the condition
RetryAgain(cmp, n) == cmp # 0

\* one attempt of ata_device_write_sector_retry as called by write_ata:
\* (read_buf is malloc'ed before the first attempt;) write the sector, read
\* it back, compare; on a match free read_buf and return to the caller
\* (which frees its scratch sector and advances)
WriteSectorRetry ==
    /\ pc \in {"prefix_w", "postfix_w", "loop_w"}
    /\ UNCHANGED <<xvars, ivars, wvars, mvars, ovars>>
    /\ LET lba == IF pc = "postfix_w" THEN end_block ELSE start_block
           buf == AttemptBuf
           written == DiskAfterWrite(disk, lba, buf)
           readback == DmaAfterRead(written, dma_start, lba)
           entered == IF attempts = 0 THEN Malloc(heap, "read_buf") ELSE heap
           left == FreeScratch(entered, "read_buf")
       IN  /\ disk' = written
           /\ dma_start' = readback
           /\ xfers' = LogXfers(<<[dir |-> "w", lba |-> lba], [dir |-> "r", lba |-> lba]>>)
           /\ attempts' = Bump(attempts)
           /\ IF RetryAgain(buffer_compare(buf, readback), attempts)
              THEN /\ heap' = entered
                   /\ UNCHANGED <<pc, start_block, end_block, x_offset, tmp>>
              ELSE /\ tmp' = NoTmp
                   /\ heap' = IF pc = "loop_w" THEN left ELSE FreeScratch(left, "tmp")
                   /\ pc' = CASE pc = "prefix_w" -> "postfix"
                               [] pc = "postfix_w" -> "loop"
                               [] OTHER -> "loop"
                   /\ start_block' = IF pc = "postfix_w" THEN start_block
                                     ELSE (start_block + 1) % BlockModulus
                   /\ end_block' = IF pc = "postfix_w" THEN (end_block - 1) % BlockModulus
                                   ELSE end_block
                   /\ x_offset' = CASE pc = "prefix_w" -> x_offset + (SectorSize - (cur.offset % SectorSize))
                                     [] pc = "postfix_w" -> x_offset
                                     [] OTHER -> Min(x_offset + SectorSize, MemLen)
           /\ UNCHANGED <<cur, prev, ncalls, size, buffer, ret, ops, touched>>

\* return size;
Return ==
    /\ pc = "loop"
    /\ ~(start_block <= end_block)
    /\ UNCHANGED <<xvars, ivars, wvars, mvars, ovars>>
    /\ pc' = "returned"
    /\ ret' = size
    /\ UNCHANGED <<disk, dma_start, cur, prev, ncalls, start_block, end_block, x_offset,
                   size, buffer, ops, xfers, touched, tmp, attempts, heap>>

\* ------------------------------------------------------------------------
\* Sector transport: two callers, four devices, two IRQ lines
\* ------------------------------------------------------------------------
Callers == {"a", "b"}

\* ata_primary_master, ata_primary_slave, ata_secondary_master,
\* ata_secondary_slave. The modelled machine has hard disks on the primary
\* channel and optical drives on the secondary one.
Devices == {"pm", "ps", "sm", "ss"}
PataDevs == {"pm", "ps"}
AtapiDevs == {"sm", "ss"}
is_atapi(dev) == dev \in AtapiDevs
io_base(dev) == IF dev \in {"pm", "ps"} THEN "0x1F0" ELSE "0x170"

\* the interrupt line of a device's channel
Lines == {14, 15}
LineOf(dev) == IF io_base(dev) = "0x1F0" THEN 14 ELSE 15

\* LBAs the callers of SpecXfer ask for
XLbas == {0, 1}

SectorOf(v) == [k \in 0..(SectorSize - 1) |-> v]
\* the sector a caller passes to ata_device_write_sector_retry
CallerSector(p) == IF p = "a" THEN SectorOf(61) ELSE SectorOf(62)

NoReq == [kind |-> "none", dev |-> "pm", lba |-> 0]

NoPacket == [i \in {} |-> 0]

Read12Packet_LittleEndian(lba) ==
    [i \in 0..11 |-> CASE i = 0 -> 168
                      [] i = 2 -> lba % 256
                      [] i = 3 -> (lba \div 256) % 256
                      [] i = 4 -> (lba \div 65536) % 256
                      [] i = 5 -> (lba \div 16777216) % 256
                      [] i = 9 -> 1
                      [] OTHER -> 0]

\* atapi_command_t command: command_bytes[0] = 0xA8, [2..5] = lba from the
\* most significant byte down, [9] = 1, every other byte 0
Read12Packet(lba) ==
    [i \in 0..11 |-> CASE i = 0 -> 168
                      [] i = 2 -> (lba \div 16777216) % 256
                      [] i = 3 -> (lba \div 65536) % 256
                      [] i = 4 -> (lba \div 256) % 256
                      [] i = 5 -> lba % 256
                      [] i = 9 -> 1
                      [] OTHER -> 0]

\* the block a drive reads for a READ(12) packet: bytes 2..5, big-endian
LbaOfPacket(pk) == pk[2] * 16777216 + pk[3] * 65536 + pk[4] * 256 + pk[5]

\* events of one ata_device_read_sector, in program order
\* outportb(bar4, 0x00); outportl(bar4 + 4, prdt); outportb(bar4, 0x08);
\* control, HDDEVSEL, features, count and the LBA registers
SetupEvents == <<"BM_STOP", "PRDT", "BM_ARM", "REGS">>

CommandEvents_StartFirst == <<"BM_START", "READ_DMA">>

\* outportb(bus + ATA_REG_COMMAND, ATA_CMD_READ_DMA); outportb(bar4, 0x08 | 0x01)
CommandEvents == <<"READ_DMA", "BM_START">>

\* the caller's read log with `what` appended
Event(p, what) == [rlog EXCEPT ![p] = @ \o what]

XInit ==
    /\ lock = "free"
    /\ xpc = [p \in Callers |-> "idle"]
    /\ xreq = [p \in Callers |-> NoReq]
    /\ read_buf = [p \in Callers |-> SectorOf(90)]
    /\ atapi_in_progress = 0
    /\ atapi_waiter = {}
    /\ irq = [l \in Lines |-> FALSE]
    /\ hpc = [l \in Lines |-> "idle"]
    /\ hobs = [l \in Lines |-> 0]
    /\ woke = [l \in Lines |-> FALSE]
    /\ hw = [d \in Devices |-> "idle"]
    /\ hw_lba = [d \in Devices |-> 0]
    /\ bm_int = [d \in PataDevs |-> FALSE]
    /\ media = [d \in PataDevs |-> InitDisk]
    /\ xdma = [d \in PataDevs |-> SectorOf(90)]
    /\ open = {}
    /\ last2 = [p \in Callers |-> <<>>]
    /\ retried = [p \in Callers |-> FALSE]
    /\ cmds = [p \in Callers |-> <<>>]
    /\ packet = [p \in Callers |-> NoPacket]
    /\ sleeps = [p \in Callers |-> 0]
    /\ rlog = [p \in Callers |-> <<>>]
    /\ faulted = {}

CanLock_Always(p) == TRUE

\* spin_lock(ata_lock) gets past its test-and-set only when the lock is free
CanLock(p) == lock = "free"

\* entries kept in a caller's bus log: four per write attempt
MaxCmds == 4 * MaxAttempts

\* what goes out on the bus, in program order
\* outportb(bus + ATA_REG_COMMAND, ATA_CMD_WRITE_PIO)
WriteCommands == <<"WRITE_PIO">>

DataPhase_NoFlush == <<"DATA_OUT">>

\* outportsm(bus, buf, ATA_SECTOR_SIZE / 2); outportb(bus + 0x07, ATA_CMD_CACHE_FLUSH)
DataPhase == <<"DATA_OUT", "CACHE_FLUSH">>
\* outportb(bus + ATA_REG_COMMAND, ATA_CMD_READ_DMA)
ReadCommands == <<"READ_DMA">>
\* outportb(bus + ATA_REG_COMMAND, ATA_CMD_PACKET)
PacketCommands == <<"PACKET">>
\* the six words of the READ(12) command packet
PacketWords == <<"READ12">>
\* inportsm(bus, buf, size_to_read / 2)
DataIn == <<"DATA_IN">>

\* the caller's bus log with `what` appended; it stops growing at MaxCmds
Issue(p, what) ==
    [cmds EXCEPT ![p] = IF Len(@) + Len(what) <= MaxCmds THEN @ \o what ELSE @]

Unlocked_StillHeld(p) == p

\* ata_lock after spin_unlock(ata_lock) by its holder p
Unlocked(p) == "free"

Note2(p, what) == [last2 EXCEPT ![p] = IF Len(@) < 2 THEN Append(@, what) ELSE <<@[2], what>>]

\* a caller enters ata_device_read_sector, ata_device_write_sector_retry or
\* ata_device_read_sector_atapi for one sector
XCall(p, kind, dev, lba) ==
    /\ xpc[p] = "idle"
    /\ xreq[p].kind = "none"
    /\ kind \in {"read", "write_retry"} => ~is_atapi(dev)
    /\ kind = "read_atapi" => is_atapi(dev)
    /\ xreq' = [xreq EXCEPT ![p] = [kind |-> kind, dev |-> dev, lba |-> lba]]
    /\ xpc' = [xpc EXCEPT ![p] = CASE kind = "read" -> (IF is_atapi(dev) THEN "returned" ELSE "r_lock")
                                   [] kind = "write_retry" -> "w_lock"
                                   [] OTHER -> (IF ~is_atapi(dev) THEN "returned" ELSE "a_lock")]
    /\ UNCHANGED <<lock, read_buf, atapi_in_progress, atapi_waiter, irq, hpc, hobs, woke,
                   hw, hw_lba, bm_int, media, xdma, open, last2>>
    /\ UNCHANGED <<avars, ivars, wvars, mvars, ovars, faulted, packet, sleeps, rlog, retried, cmds>>

\* ata_wait(dev, 0) and the BSY polls get past a drive that is idle or has
\* ended its last command with ERR
BsyClear(dev) == hw[dev] \in {"idle", "dma_err"}

\* ---- ata_device_read_sector
\* spin_lock(ata_lock)
RLock(p) ==
    /\ xpc[p] = "r_lock"
    /\ CanLock(p)
    /\ lock' = p
    /\ xpc' = [xpc EXCEPT ![p] = "r_setup"]
    /\ UNCHANGED <<xreq, read_buf, atapi_in_progress, atapi_waiter, irq, hpc, hobs, woke,
                   hw, hw_lba, bm_int, media, xdma, open, last2>>
    /\ UNCHANGED <<avars, ivars, wvars, mvars, ovars, faulted, packet, sleeps, retried, cmds>>
    /\ rlog' = [rlog EXCEPT ![p] = <<>>]

\* ata_wait; bus master stopped, PRDT loaded, status cleared, armed for read;
\* IRQ_ON; BSY poll; drive select and LBA registers; DRDY poll
RSetup(p) ==
    /\ xpc[p] = "r_setup"
    /\ BsyClear(xreq[p].dev)
    /\ open' = open \cup {p}
    /\ bm_int' = [bm_int EXCEPT ![xreq[p].dev] = FALSE]
    /\ xpc' = [xpc EXCEPT ![p] = "r_cmd"]
    /\ UNCHANGED <<lock, xreq, read_buf, atapi_in_progress, atapi_waiter, irq, hpc, hobs, woke,
                   hw, hw_lba, media, xdma, last2>>
    /\ UNCHANGED <<avars, ivars, wvars, mvars, ovars, faulted, packet, sleeps, retried, cmds>>
    /\ rlog' = Event(p, SetupEvents)

\* READ DMA issued, bus master started
RCommand(p) ==
    /\ xpc[p] = "r_cmd"
    /\ hw' = [hw EXCEPT ![xreq[p].dev] = "dma_busy"]
    /\ hw_lba' = [hw_lba EXCEPT ![xreq[p].dev] = xreq[p].lba]
    /\ xpc' = [xpc EXCEPT ![p] = "r_spin"]
    /\ UNCHANGED <<lock, xreq, read_buf, atapi_in_progress, atapi_waiter, irq, hpc, hobs, woke,
                   bm_int, media, xdma, open, last2>>
    /\ cmds' = Issue(p, ReadCommands)
    /\ UNCHANGED <<avars, ivars, wvars, mvars, ovars, faulted, packet, sleeps, retried>>
    /\ rlog' = Event(p, CommandEvents)

\* the spin on bus-master status bit 2 and BSY ends
RSpin(p) ==
    /\ xpc[p] = "r_spin"
    /\ bm_int[xreq[p].dev]
    /\ hw[xreq[p].dev] # "dma_busy"
    /\ xpc' = [xpc EXCEPT ![p] = "r_copy"]
    /\ UNCHANGED <<lock, xreq, read_buf, atapi_in_progress, atapi_waiter, irq, hpc, hobs, woke,
                   hw, hw_lba, bm_int, media, xdma, open, last2>>
    /\ UNCHANGED <<avars, ivars, wvars, mvars, ovars, faulted, packet, sleeps, retried, cmds>>
    /\ rlog' = Event(p, <<"SEEN_DONE">>)

\* IRQ_OFF; memcpy(buf, dev->dma_start, 512); bus-master status acknowledged
RCopy(p) ==
    /\ xpc[p] = "r_copy"
    /\ read_buf' = [read_buf EXCEPT ![p] = xdma[xreq[p].dev]]
    /\ bm_int' = [bm_int EXCEPT ![xreq[p].dev] = FALSE]
    /\ open' = open \ {p}
    /\ last2' = Note2(p, "r")
    /\ xpc' = [xpc EXCEPT ![p] = "r_unlock"]
    /\ UNCHANGED <<lock, xreq, atapi_in_progress, atapi_waiter, irq, hpc, hobs, woke,
                   hw, hw_lba, media, xdma>>
    /\ UNCHANGED <<avars, ivars, wvars, mvars, ovars, faulted, packet, sleeps, retried, cmds>>
    /\ rlog' = Event(p, <<"COPY">>)

\* spin_unlock(ata_lock); back in the caller (the retry loop's compare, or the
\* caller of the read)
RUnlock(p) ==
    /\ xpc[p] = "r_unlock"
    /\ lock' = Unlocked(p)
    /\ xpc' = [xpc EXCEPT ![p] = IF xreq[p].kind = "write_retry" THEN "w_compare" ELSE "returned"]
    /\ UNCHANGED <<xreq, read_buf, atapi_in_progress, atapi_waiter, irq, hpc, hobs, woke,
                   hw, hw_lba, bm_int, media, xdma, open, last2>>
    /\ UNCHANGED <<avars, ivars, wvars, mvars, ovars, faulted, packet, sleeps, retried, cmds>>
    /\ rlog' = Event(p, <<"UNLOCK">>)

\* the drive finishes READ DMA: sector in the DMA buffer, bus-master
\* interrupt bit set, interrupt raised on the channel's line
DevDmaComplete(dev) ==
    /\ dev \in PataDevs
    /\ hw[dev] = "dma_busy"
    /\ xdma' = [xdma EXCEPT ![dev] = DmaAfterRead(media[dev], xdma[dev], hw_lba[dev])]
    /\ bm_int' = [bm_int EXCEPT ![dev] = TRUE]
    /\ hw' = [hw EXCEPT ![dev] = "idle"]
    /\ irq' = [irq EXCEPT ![LineOf(dev)] = TRUE]
    /\ UNCHANGED <<lock, xpc, xreq, read_buf, atapi_in_progress, atapi_waiter, hpc, hobs, woke,
                   hw_lba, media, open, last2>>
    /\ UNCHANGED <<avars, ivars, wvars, mvars, ovars, faulted, packet, sleeps, rlog, retried, cmds>>

\* the drive ends READ DMA with ERR or DF in its status register: BSY
\* clears and nothing is transferred; the bus master either reports the
\* drive's interrupt in status bit 2 (intr) or never reports completion
DevDmaError(dev, intr) ==
    /\ dev \in PataDevs
    /\ hw[dev] = "dma_busy"
    /\ hw' = [hw EXCEPT ![dev] = "dma_err"]
    /\ bm_int' = [bm_int EXCEPT ![dev] = intr]
    /\ irq' = [irq EXCEPT ![LineOf(dev)] = @ \/ intr]
    /\ faulted' = faulted \cup {dev}
    /\ UNCHANGED <<lock, xpc, xreq, read_buf, atapi_in_progress, atapi_waiter, hpc, hobs,
                   woke, hw_lba, media, xdma, open, last2>>
    /\ UNCHANGED <<avars, ivars, wvars, mvars, ovars, packet, sleeps, rlog, retried, cmds>>

\* ---- ata_device_write_sector
WLock(p) ==
    /\ xpc[p] = "w_lock"
    /\ CanLock(p)
    /\ lock' = p
    /\ xpc' = [xpc EXCEPT ![p] = "w_setup"]
    /\ UNCHANGED <<xreq, read_buf, atapi_in_progress, atapi_waiter, irq, hpc, hobs, woke,
                   hw, hw_lba, bm_int, media, xdma, open, last2>>
    /\ UNCHANGED <<avars, ivars, wvars, mvars, ovars, faulted, packet, sleeps, rlog, retried, cmds>>

\* control 0x02; ata_wait; drive select; ata_wait; features, count, LBA
\* registers; WRITE PIO; ata_wait
WCommand(p) ==
    /\ xpc[p] = "w_setup"
    /\ BsyClear(xreq[p].dev)
    /\ open' = open \cup {p}
    /\ hw' = [hw EXCEPT ![xreq[p].dev] = "pio_out"]
    /\ hw_lba' = [hw_lba EXCEPT ![xreq[p].dev] = xreq[p].lba]
    /\ xpc' = [xpc EXCEPT ![p] = "w_data"]
    /\ UNCHANGED <<lock, xreq, read_buf, atapi_in_progress, atapi_waiter, irq, hpc, hobs, woke,
                   bm_int, media, xdma, last2>>
    /\ cmds' = Issue(p, WriteCommands)
    /\ UNCHANGED <<avars, ivars, wvars, mvars, ovars, faulted, packet, sleeps, rlog, retried>>

\* outportsm(bus, buf, 256); CACHE FLUSH; ata_wait
WData(p) ==
    /\ xpc[p] = "w_data"
    /\ media' = [media EXCEPT ![xreq[p].dev] = DiskAfterWrite(@, hw_lba[xreq[p].dev], CallerSector(p))]
    /\ hw' = [hw EXCEPT ![xreq[p].dev] = "idle"]
    /\ open' = open \ {p}
    /\ last2' = Note2(p, "w")
    /\ xpc' = [xpc EXCEPT ![p] = "w_unlock"]
    /\ UNCHANGED <<lock, xreq, read_buf, atapi_in_progress, atapi_waiter, irq, hpc, hobs, woke,
                   hw_lba, bm_int, xdma>>
    /\ cmds' = Issue(p, DataPhase)
    /\ UNCHANGED <<avars, ivars, wvars, mvars, ovars, faulted, packet, sleeps, rlog, retried>>

\* spin_unlock(ata_lock); the retry loop goes on to the read-back
WUnlock(p) ==
    /\ xpc[p] = "w_unlock"
    /\ lock' = Unlocked(p)
    /\ xpc' = [xpc EXCEPT ![p] = "r_lock"]
    /\ UNCHANGED <<xreq, read_buf, atapi_in_progress, atapi_waiter, irq, hpc, hobs, woke,
                   hw, hw_lba, bm_int, media, xdma, open, last2>>
    /\ UNCHANGED <<avars, ivars, wvars, mvars, ovars, faulted, packet, sleeps, rlog, retried, cmds>>

\* while (buffer_compare(buf, read_buf, ATA_SECTOR_SIZE)); free(read_buf)
WCompare(p) ==
    /\ xpc[p] = "w_compare"
    /\ xpc' = [xpc EXCEPT ![p] = IF buffer_compare(CallerSector(p), read_buf[p]) # 0
                                 THEN "w_lock" ELSE "returned"]
    /\ retried' = [retried EXCEPT ![p] = @ \/ buffer_compare(CallerSector(p), read_buf[p]) # 0]
    /\ UNCHANGED <<lock, xreq, read_buf, atapi_in_progress, atapi_waiter, irq, hpc, hobs, woke,
                   hw, hw_lba, bm_int, media, xdma, open, last2>>
    /\ UNCHANGED <<avars, ivars, wvars, mvars, ovars, faulted, packet, sleeps, rlog, cmds>>

\* ---- ata_device_read_sector_atapi
ALock(p) ==
    /\ xpc[p] = "a_lock"
    /\ CanLock(p)
    /\ lock' = p
    /\ xpc' = [xpc EXCEPT ![p] = "a_select"]
    /\ UNCHANGED <<xreq, read_buf, atapi_in_progress, atapi_waiter, irq, hpc, hobs, woke,
                   hw, hw_lba, bm_int, media, xdma, open, last2>>
    /\ UNCHANGED <<avars, ivars, wvars, mvars, ovars, faulted, packet, sleeps, rlog, retried, cmds>>

\* drive select; features; byte count in LBA1 / LBA2; PACKET
ASelect(p) ==
    /\ xpc[p] = "a_select"
    /\ open' = open \cup {p}
    /\ hw' = [hw EXCEPT ![xreq[p].dev] = "pkt_cmd"]
    /\ xpc' = [xpc EXCEPT ![p] = "a_poll1"]
    /\ UNCHANGED <<lock, xreq, read_buf, atapi_in_progress, atapi_waiter, irq, hpc, hobs, woke,
                   hw_lba, bm_int, media, xdma, last2>>
    /\ cmds' = Issue(p, PacketCommands)
    /\ UNCHANGED <<avars, ivars, wvars, mvars, ovars, faulted, packet, sleeps, rlog, retried>>

\* the drive answers PACKET: DRQ (ready for the packet) or ERR
DevPacketReady(dev, st) ==
    /\ dev \in AtapiDevs
    /\ hw[dev] = "pkt_cmd"
    /\ st \in {"pkt_wait", "err"}
    /\ hw' = [hw EXCEPT ![dev] = st]
    /\ UNCHANGED <<lock, xpc, xreq, read_buf, atapi_in_progress, atapi_waiter, irq, hpc, hobs,
                   woke, hw_lba, bm_int, media, xdma, open, last2>>
    /\ UNCHANGED <<avars, ivars, wvars, mvars, ovars, faulted, packet, sleeps, rlog, retried, cmds>>

\* first poll: ERR -> atapi_error_on_read_setup; !BSY && DRQ -> go on
APoll1(p) ==
    /\ xpc[p] = "a_poll1"
    /\ hw[xreq[p].dev] \in {"pkt_wait", "err"}
    /\ IF hw[xreq[p].dev] = "err"
       THEN /\ xpc' = [xpc EXCEPT ![p] = "a_unlock"]
            /\ open' = open \ {p}
       ELSE /\ xpc' = [xpc EXCEPT ![p] = "a_flag"]
            /\ UNCHANGED open
    /\ UNCHANGED <<lock, xreq, read_buf, atapi_in_progress, atapi_waiter, irq, hpc, hobs, woke,
                   hw, hw_lba, bm_int, media, xdma, last2>>
    /\ UNCHANGED <<avars, ivars, wvars, mvars, ovars, faulted, packet, sleeps, rlog, retried, cmds>>

\* atapi_in_progress = 1;
AFlag(p) ==
    /\ xpc[p] = "a_flag"
    /\ atapi_in_progress' = 1
    /\ xpc' = [xpc EXCEPT ![p] = "a_packet"]
    /\ UNCHANGED <<lock, xreq, read_buf, atapi_waiter, irq, hpc, hobs, woke,
                   hw, hw_lba, bm_int, media, xdma, open, last2>>
    /\ UNCHANGED <<avars, ivars, wvars, mvars, ovars, faulted, packet, sleeps, rlog, retried, cmds>>

\* the six words of the READ(12) packet go out; the drive starts on it
APacket(p) ==
    /\ xpc[p] = "a_packet"
    /\ hw' = [hw EXCEPT ![xreq[p].dev] = "pkt_busy"]
    /\ hw_lba' = [hw_lba EXCEPT ![xreq[p].dev] = LbaOfPacket(Read12Packet(xreq[p].lba))]
    /\ xpc' = [xpc EXCEPT ![p] = "a_sleep"]
    /\ UNCHANGED <<lock, xreq, read_buf, atapi_in_progress, atapi_waiter, irq, hpc, hobs, woke,
                   bm_int, media, xdma, open, last2>>
    /\ cmds' = Issue(p, PacketWords)
    /\ UNCHANGED <<avars, ivars, wvars, mvars, ovars, faulted, sleeps, rlog, retried>>
    /\ packet' = [packet EXCEPT ![p] = Read12Packet(xreq[p].lba)]

\* sleep_on(atapi_waiter): the caller joins the queue and stops running
ASleep(p) ==
    /\ xpc[p] = "a_sleep"
    /\ atapi_waiter' = atapi_waiter \cup {p}
    /\ xpc' = [xpc EXCEPT ![p] = "a_asleep"]
    /\ UNCHANGED <<lock, xreq, read_buf, atapi_in_progress, irq, hpc, hobs, woke,
                   hw, hw_lba, bm_int, media, xdma, open, last2>>
    /\ UNCHANGED <<avars, ivars, wvars, mvars, ovars, faulted, packet, rlog, retried, cmds>>
    /\ sleeps' = [sleeps EXCEPT ![p] = @ + 1]

\* atapi_in_progress = 0; after the wakeup
AClear(p) ==
    /\ xpc[p] = "a_woken"
    /\ atapi_in_progress' = 0
    /\ xpc' = [xpc EXCEPT ![p] = "a_poll2"]
    /\ UNCHANGED <<lock, xreq, read_buf, atapi_waiter, irq, hpc, hobs, woke,
                   hw, hw_lba, bm_int, media, xdma, open, last2>>
    /\ UNCHANGED <<avars, ivars, wvars, mvars, ovars, faulted, packet, sleeps, rlog, retried, cmds>>

\* the drive finishes the packet command: data ready (DRQ) or ERR, and the
\* completion interrupt on the channel's line
DevPacketComplete(dev, st) ==
    /\ dev \in AtapiDevs
    /\ hw[dev] = "pkt_busy"
    /\ st \in {"pkt_data", "err"}
    /\ hw' = [hw EXCEPT ![dev] = st]
    /\ irq' = [irq EXCEPT ![LineOf(dev)] = TRUE]
    /\ UNCHANGED <<lock, xpc, xreq, read_buf, atapi_in_progress, atapi_waiter, hpc, hobs, woke,
                   hw_lba, bm_int, media, xdma, open, last2>>
    /\ UNCHANGED <<avars, ivars, wvars, mvars, ovars, faulted, packet, sleeps, rlog, retried, cmds>>

\* second poll: ERR -> atapi_error_on_read_setup; !BSY && DRQ -> data phase
APoll2(p) ==
    /\ xpc[p] = "a_poll2"
    /\ hw[xreq[p].dev] \in {"pkt_data", "err"}
    /\ IF hw[xreq[p].dev] = "err"
       THEN /\ xpc' = [xpc EXCEPT ![p] = "a_unlock"]
            /\ open' = open \ {p}
       ELSE /\ xpc' = [xpc EXCEPT ![p] = "a_data"]
            /\ UNCHANGED open
    /\ UNCHANGED <<lock, xreq, read_buf, atapi_in_progress, atapi_waiter, irq, hpc, hobs, woke,
                   hw, hw_lba, bm_int, media, xdma, last2>>
    /\ UNCHANGED <<avars, ivars, wvars, mvars, ovars, faulted, packet, sleeps, rlog, retried, cmds>>

\* size_to_read from LBA2:LBA1; inportsm(bus, buf, size_to_read / 2)
AData(p) ==
    /\ xpc[p] = "a_data"
    /\ read_buf' = [read_buf EXCEPT ![p] = DiscBlock(hw_lba[xreq[p].dev])]
    /\ hw' = [hw EXCEPT ![xreq[p].dev] = "pkt_fin"]
    /\ last2' = Note2(p, "r")
    /\ xpc' = [xpc EXCEPT ![p] = "a_poll3"]
    /\ UNCHANGED <<lock, xreq, atapi_in_progress, atapi_waiter, irq, hpc, hobs, woke,
                   hw_lba, bm_int, media, xdma, open>>
    /\ cmds' = Issue(p, DataIn)
    /\ UNCHANGED <<avars, ivars, wvars, mvars, ovars, faulted, packet, sleeps, rlog, retried>>

\* the drive ends the command after the data phase: DRDY, or ERR
DevPacketDone(dev, st) ==
    /\ dev \in AtapiDevs
    /\ hw[dev] = "pkt_fin"
    /\ st \in {"pkt_done", "err"}
    /\ hw' = [hw EXCEPT ![dev] = st]
    /\ UNCHANGED <<lock, xpc, xreq, read_buf, atapi_in_progress, atapi_waiter, irq, hpc, hobs,
                   woke, hw_lba, bm_int, media, xdma, open, last2>>
    /\ UNCHANGED <<avars, ivars, wvars, mvars, ovars, faulted, packet, sleeps, rlog, retried, cmds>>

\* last poll: ERR -> atapi_error_on_read_setup; !BSY && DRDY -> falls through
\* to the same label
APoll3(p) ==
    /\ xpc[p] = "a_poll3"
    /\ hw[xreq[p].dev] \in {"pkt_done", "err"}
    /\ open' = open \ {p}
    /\ xpc' = [xpc EXCEPT ![p] = "a_unlock"]
    /\ UNCHANGED <<lock, xreq, read_buf, atapi_in_progress, atapi_waiter, irq, hpc, hobs, woke,
                   hw, hw_lba, bm_int, media, xdma, last2>>
    /\ UNCHANGED <<avars, ivars, wvars, mvars, ovars, faulted, packet, sleeps, rlog, retried, cmds>>

\* atapi_error_on_read_setup: spin_unlock(ata_lock);
AUnlock(p) ==
    /\ xpc[p] = "a_unlock"
    /\ lock' = Unlocked(p)
    /\ hw' = [hw EXCEPT ![xreq[p].dev] = "idle"]
    /\ xpc' = [xpc EXCEPT ![p] = "returned"]
    /\ UNCHANGED <<xreq, read_buf, atapi_in_progress, atapi_waiter, irq, hpc, hobs, woke,
                   hw_lba, bm_int, media, xdma, open, last2>>
    /\ UNCHANGED <<avars, ivars, wvars, mvars, ovars, faulted, packet, sleeps, rlog, retried, cmds>>

\* ---- ata_irq_handler (line 14) / ata_irq_handler_s (line 15)
ShouldWake_Always(observed) == TRUE

\* if (atapi_in_progress)
ShouldWake(observed) == observed # 0

\* the handler reads the channel's status register (the device drops its
\* interrupt) and tests atapi_in_progress
IrqEnter(l) ==
    /\ irq[l]
    /\ hpc[l] = "idle"
    /\ irq' = [irq EXCEPT ![l] = FALSE]
    /\ hobs' = [hobs EXCEPT ![l] = atapi_in_progress]
    /\ woke' = [woke EXCEPT ![l] = FALSE]
    /\ hpc' = [hpc EXCEPT ![l] = "decided"]
    /\ UNCHANGED <<lock, xpc, xreq, read_buf, atapi_in_progress, atapi_waiter,
                   hw, hw_lba, bm_int, media, xdma, open, last2>>
    /\ UNCHANGED <<avars, ivars, wvars, mvars, ovars, faulted, packet, sleeps, rlog, retried, cmds>>

\* wakeup_queue(atapi_waiter) when the flag was seen set; irq_ack
IrqFinish(l) ==
    /\ hpc[l] = "decided"
    /\ hpc' = [hpc EXCEPT ![l] = "idle"]
    /\ IF ShouldWake(hobs[l])
       THEN /\ atapi_waiter' = {}
            /\ xpc' = [p \in Callers |-> IF p \in atapi_waiter THEN "a_woken" ELSE xpc[p]]
            /\ woke' = [woke EXCEPT ![l] = TRUE]
       ELSE UNCHANGED <<atapi_waiter, xpc, woke>>
    /\ UNCHANGED <<lock, xreq, read_buf, atapi_in_progress, irq, hobs,
                   hw, hw_lba, bm_int, media, xdma, open, last2>>
    /\ UNCHANGED <<avars, ivars, wvars, mvars, ovars, faulted, packet, sleeps, rlog, retried, cmds>>

\* ------------------------------------------------------------------------
\* Module initialisation: ata_initialize probes the four slots in turn
\* ------------------------------------------------------------------------
\* ata_primary_master, ata_primary_slave, ata_secondary_master,
\* ata_secondary_slave, in the order ata_initialize probes them
SlotDev == <<"pm", "ps", "sm", "ss">>

\* (LBA1, LBA2) pairs a slot may answer after the soft reset: the two PATA
\* signatures, the two ATAPI ones, the floating bus, and two other pairs
Signatures == {<<0, 0>>, <<60, 195>>, <<20, 235>>, <<105, 150>>, <<255, 255>>, <<0, 235>>, <<127, 127>>}

IsNothing(cl, ch) == cl = 255 /\ ch = 255
\* the signature tests of ata_device_detect
IsPataSig(cl, ch) == (cl = 0 /\ ch = 0) \/ (cl = 60 /\ ch = 195)
IsAtapiSig_OnlyFirst(cl, ch) == cl = 20 /\ ch = 235

IsAtapiSig(cl, ch) == (cl = 20 /\ ch = 235) \/ (cl = 105 /\ ch = 150)

\* sector counts a hard disk reports in its IDENTIFY data
Identities == {[sectors_48 |-> 0, sectors_28 |-> NumSectors],
               [sectors_48 |-> NumSectors + 1, sectors_28 |-> NumSectors]}
\* dev->identity before IDENTIFY has been read: static storage, all zero
NoIdentity == [sectors_48 |-> 0, sectors_28 |-> 0]
NoGeom == [atapi_lba |-> 0, atapi_sector_size |-> 0]

\* how the READ CAPACITY probe of atapi_device_init can end: ERR at the first
\* poll, ERR at the second, or eight data bytes (last LBA, block length)
ProbeResults ==
    {[end |-> "atapi_error", lba |-> 0, blocks |-> 0],
     [end |-> "atapi_error_read", lba |-> 0, blocks |-> 0],
     [end |-> "data", lba |-> 0, blocks |-> AtapiSectorSize],
     [end |-> "data", lba |-> AtapiLba, blocks |-> AtapiSectorSize]}
NoProbe == [end |-> "none", lba |-> 0, blocks |-> 0]

\* values of PCI BAR4: an I/O-space BAR (bit 0 set) and a memory BAR
BarValues == {13, 20}

\* if (dev->bar4 & 1) dev->bar4 &= 0xFFFFFFFC; else return;
Bar4After(v) == IF v % 2 = 1 THEN v - (v % 4) ELSE v

AtapiWrite_WriteAta == "write_ata"

\* fnode->write = NULL; /* no write support */
AtapiWrite == "NULL"

\* the node atapi_device_create builds for a device whose geometry reads geom
atapi_device_create(dev, geom) ==
    [name |-> <<"cdrom", cdrom_number>>, device |-> dev, mask |-> "0660", uid |-> 0, gid |-> 0,
     length |-> atapi_max_offset(geom), flags |-> "FS_BLOCKDEVICE",
     read |-> "read_atapi", write |-> AtapiWrite]

\* the node ata_device_create builds for a device whose dev->identity reads ident
ata_device_create(dev, ident) ==
    [name |-> <<"atadev", ata_drive_char>>, device |-> dev, mask |-> "0660", uid |-> 0, gid |-> 0,
     length |-> ata_max_offset(ident), flags |-> "FS_BLOCKDEVICE",
     read |-> "read_ata", write |-> "write_ata"]

NextDriveChar_Same(c) == c

\* ata_drive_char++
NextDriveChar(c) == c + 1

\* IDENTIFY data of the disk the byte-range calls run on: a drive without
\* 48-bit addressing, and one whose 28-bit count is smaller than its 48-bit
\* count; either way the medium has NumSectors sectors
HdaIdentities == {[sectors_48 |-> 0, sectors_28 |-> NumSectors],
                  [sectors_48 |-> NumSectors, sectors_28 |-> NumSectors - 1]}

NoOp == [op |-> "none", node |-> 0, ret |-> 0, issued |-> {}, ports |-> {}]

IInit(b) ==
    /\ islot = 0
    /\ ata_drive_char = 0
    /\ cdrom_number = 0
    /\ identity = [d \in Devices |-> NoIdentity]
    /\ atapi_geom = [d \in Devices |-> NoGeom]
    /\ dev_is_atapi = [d \in Devices |-> 0]
    /\ bar4 = [d \in Devices |-> 0]
    /\ dma_prdt = [d \in Devices |-> FALSE]
    /\ pci_bar4 = b
    /\ cursig = <<>>
    /\ probe = [d \in Devices |-> NoProbe]
    /\ mounts = <<>>
    /\ lastop = NoOp

\* the driver after ata_initialize found one hard disk, in the primary-master
\* slot, and nothing in the other three
IAfterInit(ident) ==
    /\ islot = 5
    /\ ata_drive_char = 1
    /\ cdrom_number = 0
    /\ identity = [d \in Devices |-> IF d = "pm" THEN ident ELSE NoIdentity]
    /\ atapi_geom = [d \in Devices |-> NoGeom]
    /\ dev_is_atapi = [d \in Devices |-> 0]
    /\ bar4 = [d \in Devices |-> IF d = "pm" THEN Bar4After(13) ELSE 0]
    /\ dma_prdt = [d \in Devices |-> d = "pm"]
    /\ pci_bar4 = 13
    /\ cursig = <<255, 255>>
    /\ probe = [d \in Devices |-> NoProbe]
    /\ mounts = <<[path |-> <<"hd", 0>>,
                   node |-> [ata_device_create("pm", NoIdentity) EXCEPT !.name = <<"atadev", 0>>]]>>
    /\ lastop = NoOp

\* ata_initialize up to the first ata_device_detect: pci_scan, the two IRQ
\* handlers, atapi_waiter = list_create()
Initialize ==
    /\ islot = 0
    /\ islot' = 1
    /\ UNCHANGED <<ata_drive_char, cdrom_number, identity, atapi_geom, dev_is_atapi, bar4,
                   dma_prdt, pci_bar4, cursig, probe, mounts, lastop>>
    /\ UNCHANGED <<avars, xvars, wvars, mvars, ovars>>

\* the PATA branch of ata_device_detect: sprintf(devname, "/dev/hd%c", ...);
\* node = ata_device_create(dev); vfs_mount(devname, node); ata_drive_char++;
\* then ata_device_init(dev): IDENTIFY data into dev->identity, is_atapi = 0,
\* PRDT and DMA buffer, bus mastering, BAR4. The node is built before
\* ata_device_init has read the IDENTIFY data.
DetectPata(dev, ident) ==
    /\ mounts' = Append(mounts, [path |-> <<"hd", ata_drive_char>>,
                                 node |-> ata_device_create(dev, identity[dev])])
    /\ ata_drive_char' = NextDriveChar(ata_drive_char)
    /\ identity' = [identity EXCEPT ![dev] = ident]
    /\ dev_is_atapi' = [dev_is_atapi EXCEPT ![dev] = 0]
    /\ dma_prdt' = [dma_prdt EXCEPT ![dev] = TRUE]
    /\ bar4' = [bar4 EXCEPT ![dev] = Bar4After(pci_bar4)]
    /\ UNCHANGED <<cdrom_number, atapi_geom, probe>>

\* value atapi_device_init returns for a probe result
AtapiInitReturn(res) == IF res.end = "data" /\ res.lba # 0 THEN 0 ELSE 1

\* dev->atapi_lba and dev->atapi_sector_size after atapi_device_init
GeomAfter(old, res) ==
    IF res.end = "data" THEN [atapi_lba |-> res.lba, atapi_sector_size |-> res.blocks] ELSE old

\* the ATAPI branch of ata_device_detect: sprintf(devname, "/dev/cdrom%d", ...);
\* if (atapi_device_init(dev)) return 0; node = atapi_device_create(dev);
\* vfs_mount(devname, node); cdrom_number++. The node is built after the
\* probe has stored the geometry.
DetectAtapi(dev, res) ==
    /\ dev_is_atapi' = [dev_is_atapi EXCEPT ![dev] = 1]
    /\ probe' = [probe EXCEPT ![dev] = res]
    /\ atapi_geom' = [atapi_geom EXCEPT ![dev] = GeomAfter(@, res)]
    /\ IF AtapiInitReturn(res) # 0
       THEN UNCHANGED <<mounts, cdrom_number>>
       ELSE /\ mounts' = Append(mounts,
                    [path |-> <<"cdrom", cdrom_number>>,
                     node |-> atapi_device_create(dev, GeomAfter(atapi_geom[dev], res))])
            /\ cdrom_number' = cdrom_number + 1
    /\ UNCHANGED <<ata_drive_char, identity, dma_prdt, bar4>>

\* ata_device_detect(dev) for the slot ata_initialize is at: soft reset,
\* drive select, signature from LBA1 / LBA2, dispatch
Detect(cl, ch, ident, res) ==
    /\ islot \in 1..4
    /\ islot' = islot + 1
    /\ cursig' = <<cl, ch>>
    /\ IF IsNothing(cl, ch)
       THEN UNCHANGED <<ata_drive_char, cdrom_number, identity, atapi_geom, dev_is_atapi, bar4,
                        dma_prdt, probe, mounts>>
       ELSE IF IsPataSig(cl, ch)
       THEN DetectPata(SlotDev[islot], ident)
       ELSE IF IsAtapiSig(cl, ch)
       THEN DetectAtapi(SlotDev[islot], res)
       ELSE UNCHANGED <<ata_drive_char, cdrom_number, identity, atapi_geom, dev_is_atapi, bar4,
                        dma_prdt, probe, mounts>>
    /\ UNCHANGED <<pci_bar4, lastop>>
    /\ UNCHANGED <<avars, xvars, wvars, mvars, ovars>>

\* ---- node operations after initialisation
\* bus-master ports ata_device_read_sector writes: command, status, PRDT
BusMasterPorts(dev) == {bar4[dev], bar4[dev] + 2, bar4[dev] + 4}

\* what one ata_device_read_sector(dev, ...) puts on the bus
ReadSectorIssues(dev) == IF dev_is_atapi[dev] # 0 THEN {} ELSE {"READ_DMA"}
ReadSectorPorts(dev) == IF dev_is_atapi[dev] # 0 THEN {} ELSE BusMasterPorts(dev)

\* what one ata_device_read_sector_atapi(dev, ...) puts on the bus
AtapiReadIssues(dev) == IF dev_is_atapi[dev] = 0 THEN {} ELSE {"PACKET", "READ12", "DATA_IN"}

\* what one ata_device_write_sector(dev, ...) puts on the bus
WriteSectorIssues(dev) == {"WRITE_PIO", "DATA_OUT", "CACHE_FLUSH"}

\* bytes a one-sector request at offset 0 returns on the node's device
OneSector(n) ==
    IF n.read = "read_ata"
    THEN Min(SectorSize, ata_max_offset(identity[n.device]))
    ELSE Min(atapi_geom[n.device].atapi_sector_size, atapi_max_offset(atapi_geom[n.device]))

\* read of the first sector of a published node, through node->read
NodeRead(k) ==
    /\ islot = 5
    /\ k \in DOMAIN mounts
    /\ LET n == mounts[k].node
           d == n.device
       IN  lastop' = [op |-> "read", node |-> k, ret |-> OneSector(n),
                      issued |-> IF n.read = "read_ata" THEN ReadSectorIssues(d) ELSE AtapiReadIssues(d),
                      ports |-> IF n.read = "read_ata" THEN ReadSectorPorts(d) ELSE {}]
    /\ UNCHANGED <<islot, ata_drive_char, cdrom_number, identity, atapi_geom, dev_is_atapi,
                   bar4, dma_prdt, pci_bar4, cursig, probe, mounts>>
    /\ UNCHANGED <<avars, xvars, wvars, mvars, ovars>>

\* write of the first sector of a published node: a node without a write
\* function fails in the VFS before any driver code runs; otherwise
\* node->write (write_ata) writes the sector and reads it back
NodeWrite(k) ==
    /\ islot = 5
    /\ k \in DOMAIN mounts
    /\ LET n == mounts[k].node
           d == n.device
       IN  IF n.write = "NULL"
           THEN lastop' = [op |-> "write", node |-> k, ret |-> 0 - 1, issued |-> {}, ports |-> {}]
           ELSE lastop' = [op |-> "write", node |-> k, ret |-> OneSector(n),
                           issued |-> WriteSectorIssues(d) \cup ReadSectorIssues(d),
                           ports |-> ReadSectorPorts(d)]
    /\ UNCHANGED <<islot, ata_drive_char, cdrom_number, identity, atapi_geom, dev_is_atapi,
                   bar4, dma_prdt, pci_bar4, cursig, probe, mounts>>
    /\ UNCHANGED <<avars, xvars, wvars, mvars, ovars>>

\* ------------------------------------------------------------------------
\* Two callers of write_ata on one sector; every ata_device_read_sector and
\* ata_device_write_sector is one step, being inside ata_lock from its first
\* port access to its last
\* ------------------------------------------------------------------------
\* what the sector holds before the calls
RmwSectors == {SectorOf(1), SectorOf(2)}

\* the bytes of the sector each caller's range covers in a partial write:
\* caller a's range ends after byte 0 (a partial last sector), caller b's
\* range starts at byte 1 and runs to the end (a partial first sector)
Own(p) == IF p = "a" THEN {0} ELSE 1..(SectorSize - 1)

\* tmp after ata_device_read_sector(dev, block, tmp) and the memcpy of the
\* caller's bytes into it
Merge(p, sec) == [k \in 0..(SectorSize - 1) |-> IF k \in Own(p) THEN CallerSector(p)[k] ELSE sec[k]]

RmwInit(sec) ==
    /\ m_disk = sec
    /\ m_pc = [p \in Callers |-> "idle"]
    /\ m_kind = [p \in Callers |-> "none"]
    /\ m_buf = [p \in Callers |-> SectorOf(90)]
    /\ m_rb = [p \in Callers |-> SectorOf(90)]

\* write_ata reaches the sector: with part of it in the caller's range it
\* goes to the read of the partial-sector branch, with all of it to the
\* whole-sector loop and its ata_device_write_sector_retry
RmwCall(p, kind) ==
    /\ m_pc[p] = "idle"
    /\ m_kind' = [m_kind EXCEPT ![p] = kind]
    /\ m_pc' = [m_pc EXCEPT ![p] = IF kind = "partial" THEN "read" ELSE "write"]
    /\ m_buf' = [m_buf EXCEPT ![p] = IF kind = "partial" THEN @ ELSE CallerSector(p)]
    /\ UNCHANGED <<m_disk, m_rb>>
    /\ UNCHANGED <<avars, xvars, ivars, wvars, ovars>>

\* ata_device_read_sector(dev, block, tmp); memcpy of the caller's bytes
RmwRead(p) ==
    /\ m_pc[p] = "read"
    /\ m_buf' = [m_buf EXCEPT ![p] = Merge(p, m_disk)]
    /\ m_pc' = [m_pc EXCEPT ![p] = "write"]
    /\ UNCHANGED <<m_disk, m_kind, m_rb>>
    /\ UNCHANGED <<avars, xvars, ivars, wvars, ovars>>

\* ata_device_write_sector(dev, lba, buf) of the retry loop
RmwWrite(p) ==
    /\ m_pc[p] = "write"
    /\ m_disk' = m_buf[p]
    /\ m_pc' = [m_pc EXCEPT ![p] = "verify"]
    /\ UNCHANGED <<m_kind, m_buf, m_rb>>
    /\ UNCHANGED <<avars, xvars, ivars, wvars, ovars>>

\* ata_device_read_sector(dev, lba, read_buf); while (buffer_compare(...))
RmwVerify(p) ==
    /\ m_pc[p] = "verify"
    /\ m_rb' = [m_rb EXCEPT ![p] = m_disk]
    /\ m_pc' = [m_pc EXCEPT ![p] = IF RetryAgain(buffer_compare(m_buf[p], m_disk), 1)
                                   THEN "write" ELSE "done"]
    /\ UNCHANGED <<m_disk, m_kind, m_buf>>
    /\ UNCHANGED <<avars, xvars, ivars, wvars, ovars>>

\* ------------------------------------------------------------------------
\* Status wait: ata_status_wait(dev, timeout)
\* ------------------------------------------------------------------------
\* status bytes the port may read: nothing, DRDY|DSC, BSY, BSY|ERR, BSY|DRDY|DSC
StatusBytes == {0, 80, 128, 129, 208}

\* status & ATA_SR_BSY
Bsy(status) == (status \div 128) % 2 = 1

\* timeouts callers pass: -1 (ata_wait), 0, and positive caps (10000 in
\* ata_device_detect)
Timeouts == (0 - 1)..MaxTimeout

\* reads counted for one call; the count stops there
MaxReads == MaxTimeout + 3

StillWaiting_NoCap(status, i, timeout) == Bsy(status)

\* the loop conditions: (status & ATA_SR_BSY) && (i < timeout) when
\* timeout > 0, (status & ATA_SR_BSY) otherwise
StillWaiting(status, i, timeout) ==
    IF timeout > 0 THEN Bsy(status) /\ i < timeout ELSE Bsy(status)

WaitInit ==
    /\ sw_pc = "idle"
    /\ sw_timeout = 0
    /\ sw_i = 0
    /\ sw_reads = 0
    /\ sw_status = 0

\* entry: int status; int i = 0;
StatusWaitCall(timeout) ==
    /\ sw_pc \in {"idle", "returned"}
    /\ sw_pc' = "polling"
    /\ sw_timeout' = timeout
    /\ sw_i' = 0
    /\ sw_reads' = 0
    /\ sw_status' = 0
    /\ UNCHANGED <<avars, xvars, ivars, mvars, ovars>>

\* one evaluation of the loop condition: status = inportb(status port), the
\* test, and either i++ (capped loop) and round again, or return status
StatusWaitPoll(status) ==
    /\ sw_pc = "polling"
    /\ sw_status' = status
    /\ sw_reads' = Min(sw_reads + 1, MaxReads)
    /\ IF StillWaiting(status, sw_i, sw_timeout)
       THEN /\ sw_i' = IF sw_timeout > 0 THEN sw_i + 1 ELSE sw_i
            /\ sw_pc' = "polling"
       ELSE /\ sw_pc' = "returned"
            /\ UNCHANGED sw_i
    /\ UNCHANGED sw_timeout
    /\ UNCHANGED <<avars, xvars, ivars, mvars, ovars>>

\* ------------------------------------------------------------------------
\* The legacy PIO driver: ata_device_read_sector
\* status bytes the advanced wait may read once BSY is clear: DRDY|DSC|DRQ,
\* DRDY|DSC|ERR, DRDY|DSC|DF, DRDY|DSC (no DRQ), DRDY|DSC|DRQ|ERR
PioStatusBytes == {88, 81, 112, 80, 89}

Bit(status, mask) == (status \div mask) % 2 = 1

\* what ata_wait(dev, 1) returns: 1 on ERR, on DF, or without DRQ
ata_wait(status) == IF Bit(status, 1) \/ Bit(status, 32) \/ ~Bit(status, 8) THEN 1 ELSE 0

MaxErrors == 4
WordsPerSector == 256

TooManyErrors_Late(e) == e > MaxErrors + 1

\* if (errors > 4)
TooManyErrors(e) == e > MaxErrors

PioInit ==
    /\ pio_lock = "free"
    /\ ppc = [p \in Callers |-> "idle"]
    /\ errors = [p \in Callers |-> 0]
    /\ pio_cmds = [p \in Callers |-> 0]
    /\ pio_words = [p \in Callers |-> 0]
    /\ pio_unlocks = [p \in Callers |-> 0]

\* a caller enters ata_device_read_sector
PioCall(p) ==
    /\ ppc[p] \in {"idle", "returned"}
    /\ ppc' = [ppc EXCEPT ![p] = "lock"]
    /\ errors' = [errors EXCEPT ![p] = 0]
    /\ pio_cmds' = [pio_cmds EXCEPT ![p] = 0]
    /\ pio_words' = [pio_words EXCEPT ![p] = 0]
    /\ pio_unlocks' = [pio_unlocks EXCEPT ![p] = 0]
    /\ UNCHANGED pio_lock
    /\ UNCHANGED <<avars, xvars, ivars, wvars, mvars, gvars, qvars, pvars>>

\* spin_lock(ata_lock); int errors = 0;
PioLock(p) ==
    /\ ppc[p] = "lock"
    /\ pio_lock = "free"
    /\ pio_lock' = p
    /\ errors' = [errors EXCEPT ![p] = 0]
    /\ ppc' = [ppc EXCEPT ![p] = "command"]
    /\ UNCHANGED <<pio_cmds, pio_words, pio_unlocks>>
    /\ UNCHANGED <<avars, xvars, ivars, wvars, mvars, gvars, qvars, pvars>>

\* try_again: control register, ata_wait(dev, 0), drive select, LBA
\* registers, ATA_CMD_READ_PIO
PioCommand(p) ==
    /\ ppc[p] = "command"
    /\ pio_cmds' = [pio_cmds EXCEPT ![p] = @ + 1]
    /\ ppc' = [ppc EXCEPT ![p] = "wait"]
    /\ UNCHANGED <<pio_lock, errors, pio_words, pio_unlocks>>
    /\ UNCHANGED <<avars, xvars, ivars, wvars, mvars, gvars, qvars, pvars>>

\* if (ata_wait(dev, 1)) { errors++; if (errors > 4) { spin_unlock; return; }
\* goto try_again; } inportsm(bus, buf, 256); ata_wait(dev, 0); spin_unlock
PioWait(p, status) ==
    /\ ppc[p] = "wait"
    /\ IF ata_wait(status) # 0
       THEN /\ errors' = [errors EXCEPT ![p] = @ + 1]
            /\ IF TooManyErrors(errors[p] + 1)
               THEN /\ pio_lock' = "free"
                    /\ pio_unlocks' = [pio_unlocks EXCEPT ![p] = @ + 1]
                    /\ ppc' = [ppc EXCEPT ![p] = "returned"]
               ELSE /\ ppc' = [ppc EXCEPT ![p] = "command"]
                    /\ UNCHANGED <<pio_lock, pio_unlocks>>
            /\ UNCHANGED pio_words
       ELSE /\ pio_words' = [pio_words EXCEPT ![p] = @ + WordsPerSector]
            /\ pio_lock' = "free"
            /\ pio_unlocks' = [pio_unlocks EXCEPT ![p] = @ + 1]
            /\ ppc' = [ppc EXCEPT ![p] = "returned"]
            /\ UNCHANGED errors
    /\ UNCHANGED pio_cmds
    /\ UNCHANGED <<avars, xvars, ivars, wvars, mvars, gvars, qvars, pvars>>

\* ------------------------------------------------------------------------
\* The legacy PIO driver: write_ata
\* caller memory at index i: the caller's bytes, then whatever follows them
LgBufAt(i) == IF i < lg_req.size THEN CallerByte(0, i) ELSE lg_req.junk

\* unsigned int end_block = (offset + size - 1) / ATA_SECTOR_SIZE, on
\* uint32_t operands: 0 - 1 wraps to the largest block number
LgEndBlock(offset, sz) ==
    IF offset + sz = 0 THEN BlockModulus - 1 ELSE (offset + sz - 1) \div SectorSize

\* tmp after ata_device_read_sector(dev, lba, tmp): the sector, or, past the
\* end of the medium (five errors, no data word read), what malloc returned
LgSectorRead(lba) == IF lba < NumSectors THEN lg_disk[lba] ELSE SectorOf(lg_req.junk)

\* (offset + size) % ATA_SECTOR_SIZE && start_block < end_block
PostfixApplies(rest, start, end) == rest # 0 /\ start < end

LgInit ==
    /\ lg_pc = "idle"
    /\ lg_req = [offset |-> 0, size |-> 0, junk |-> 90]
    /\ lg_size = 0
    /\ lg_start_block = 0
    /\ lg_end_block = 0
    /\ lg_x_offset = 0
    /\ lg_disk = InitDisk
    /\ lg_writes = <<>>

LgLogWrite(lba) == IF Len(lg_writes) < MaxLog THEN Append(lg_writes, lba) ELSE lg_writes

\* entry of write_ata up to the clamp
LgCall(offset, sz, j) ==
    /\ lg_pc = "idle"
    /\ lg_req' = [offset |-> offset, size |-> sz, junk |-> j]
    /\ lg_start_block' = offset \div SectorSize
    /\ lg_end_block' = LgEndBlock(offset, sz)
    /\ lg_x_offset' = 0
    /\ IF offset > ata_max_offset(hda)
       THEN /\ lg_pc' = "returned"
            /\ lg_size' = 0
       ELSE /\ lg_pc' = "prefix"
            /\ lg_size' = Clamp(offset, sz, ata_max_offset(hda))
    /\ UNCHANGED <<lg_disk, lg_writes>>
    /\ UNCHANGED <<avars, xvars, ivars, wvars, mvars, lvars, qvars, pvars>>

\* if (offset % ATA_SECTOR_SIZE) { read the sector into tmp, memcpy the
\* caller's first prefix_size bytes over its tail, write it back }
LgPrefix ==
    /\ lg_pc = "prefix"
    /\ LET off == lg_req.offset % SectorSize
           prefix_size == SectorSize - off
           sec == LgSectorRead(lg_start_block)
           tmp_w == [k \in 0..(SectorSize - 1) |-> IF k >= off THEN LgBufAt(k - off) ELSE sec[k]]
       IN  IF off = 0
           THEN UNCHANGED <<lg_disk, lg_x_offset, lg_start_block, lg_writes>>
           ELSE /\ lg_disk' = DiskAfterWrite(lg_disk, lg_start_block, tmp_w)
                /\ lg_writes' = LgLogWrite(lg_start_block)
                /\ lg_x_offset' = lg_x_offset + prefix_size
                /\ lg_start_block' = lg_start_block + 1
    /\ lg_pc' = "postfix"
    /\ UNCHANGED <<lg_req, lg_size, lg_end_block>>
    /\ UNCHANGED <<avars, xvars, ivars, wvars, mvars, lvars, qvars, pvars>>

\* if ((offset + size) % ATA_SECTOR_SIZE && start_block < end_block) { read
\* the last sector into tmp, memcpy the caller's last postfix_size bytes over
\* its head, write it back; end_block-- }
LgPostfix ==
    /\ lg_pc = "postfix"
    /\ LET postfix_size == (lg_req.offset + lg_size) % SectorSize
           sec == LgSectorRead(lg_end_block)
           tmp_w == [k \in 0..(SectorSize - 1) |->
                       IF k < postfix_size THEN LgBufAt(lg_size - postfix_size + k) ELSE sec[k]]
       IN  IF PostfixApplies(postfix_size, lg_start_block, lg_end_block)
           THEN /\ lg_disk' = DiskAfterWrite(lg_disk, lg_end_block, tmp_w)
                /\ lg_writes' = LgLogWrite(lg_end_block)
                /\ lg_end_block' = lg_end_block - 1
           ELSE UNCHANGED <<lg_disk, lg_end_block, lg_writes>>
    /\ lg_pc' = "loop"
    /\ UNCHANGED <<lg_req, lg_size, lg_start_block, lg_x_offset>>
    /\ UNCHANGED <<avars, xvars, ivars, wvars, mvars, lvars, qvars, pvars>>

\* one iteration of while (start_block <= end_block): a whole sector is
\* written from buffer + x_offset. Past the end of the medium the verifying
\* read stores nothing, and the compare against what malloc returned may
\* fail (the retry goes round again) or pass.
LgLoop(passes) ==
    /\ lg_pc = "loop"
    /\ lg_start_block <= lg_end_block
    /\ passes \/ lg_start_block >= NumSectors
    /\ IF passes
       THEN /\ lg_disk' = DiskAfterWrite(lg_disk, lg_start_block,
                                         [k \in 0..(SectorSize - 1) |-> LgBufAt(lg_x_offset + k)])
            /\ lg_writes' = LgLogWrite(lg_start_block)
            /\ lg_x_offset' = lg_x_offset + SectorSize
            /\ lg_start_block' = lg_start_block + 1
       ELSE UNCHANGED <<lg_disk, lg_writes, lg_x_offset, lg_start_block>>
    /\ UNCHANGED <<lg_pc, lg_req, lg_size, lg_end_block>>
    /\ UNCHANGED <<avars, xvars, ivars, wvars, mvars, lvars, qvars, pvars>>

\* return size;
LgReturn ==
    /\ lg_pc = "loop"
    /\ lg_start_block > lg_end_block
    /\ lg_pc' = "returned"
    /\ UNCHANGED <<lg_req, lg_size, lg_start_block, lg_end_block, lg_x_offset, lg_disk, lg_writes>>
    /\ UNCHANGED <<avars, xvars, ivars, wvars, mvars, lvars, qvars, pvars>>

\* ------------------------------------------------------------------------
\* The interrupt-enable state across ata_device_read_sector (DMA driver) and
\* ata_device_write_sector_retry (legacy PIO driver)
\* IRQ_ON: interrupts enabled, nesting forgotten
IrqOn(st) == [on |-> TRUE, depth |-> 0]

\* IRQ_OFF: interrupts disabled; the nesting restarts at 1 when they were
\* enabled and grows otherwise
IrqOff(st) == [on |-> FALSE, depth |-> IF st.on THEN 1 ELSE st.depth + 1]

\* IRQ_RES: the outermost IRQ_OFF is undone by enabling interrupts, an inner
\* one by leaving the nesting level
IrqRes(st) == IF st.depth <= 1 THEN [on |-> TRUE, depth |-> st.depth]
              ELSE [on |-> st.on, depth |-> st.depth - 1]

CpuState == [on |-> int_on, depth |-> sync_depth]

\* states a caller may be in when it enters the driver: interrupts enabled,
\* or disabled by one or two IRQ_OFF
EntryStates == {[on |-> TRUE, depth |-> 0], [on |-> FALSE, depth |-> 1], [on |-> FALSE, depth |-> 2]}

IrqInit(st) ==
    /\ int_on = st.on
    /\ sync_depth = st.depth
    /\ iq_pc = "idle"
    /\ iq_path = "none"
    /\ iq_entry = st.on
    /\ iq_polls = 0
    /\ iq_irq = "none"

\* a caller enters ata_device_read_sector (on a PATA or an ATAPI device) or
\* the legacy ata_device_write_sector_retry; if (dev->is_atapi) return;
IqCall(path) ==
    /\ iq_pc \in {"idle", "returned"}
    /\ iq_path' = path
    /\ iq_entry' = int_on
    /\ iq_polls' = 0
    /\ iq_irq' = IF iq_irq = "pending" THEN "pending" ELSE "none"
    /\ iq_pc' = CASE path = "dma_read" -> "r_setup"
                  [] path = "dma_read_atapi" -> "returned"
                  [] OTHER -> "w_off"
    /\ UNCHANGED <<int_on, sync_depth>>
    /\ UNCHANGED <<avars, xvars, ivars, wvars, mvars, lvars, gvars, pvars>>

\* spin_lock; ata_wait; bus master stopped, PRDT loaded, armed; IRQ_ON
IqReadSetup ==
    /\ iq_pc = "r_setup"
    /\ int_on' = IrqOn(CpuState).on
    /\ sync_depth' = IrqOn(CpuState).depth
    /\ iq_pc' = "r_spin"
    /\ UNCHANGED <<iq_path, iq_entry, iq_polls, iq_irq>>
    /\ UNCHANGED <<avars, xvars, ivars, wvars, mvars, lvars, gvars, pvars>>

\* the polls from the BSY poll to the spin on bus-master status bit 2; the
\* last one sees the transfer complete
IqReadSpin(done) ==
    /\ iq_pc = "r_spin"
    /\ iq_polls' = Min(iq_polls + 1, MaxAttempts)
    /\ iq_pc' = IF done THEN "r_off" ELSE "r_spin"
    /\ UNCHANGED <<int_on, sync_depth, iq_path, iq_entry, iq_irq>>
    /\ UNCHANGED <<avars, xvars, ivars, wvars, mvars, lvars, gvars, pvars>>

\* IRQ_OFF; memcpy; bus-master status acknowledged; spin_unlock; return
IqReadOff ==
    /\ iq_pc = "r_off"
    /\ int_on' = IrqOff(CpuState).on
    /\ sync_depth' = IrqOff(CpuState).depth
    /\ iq_pc' = "returned"
    /\ UNCHANGED <<iq_path, iq_entry, iq_polls, iq_irq>>
    /\ UNCHANGED <<avars, xvars, ivars, wvars, mvars, lvars, gvars, pvars>>

\* read_buf = malloc(ATA_SECTOR_SIZE); IRQ_OFF;
IqRetryOff ==
    /\ iq_pc = "w_off"
    /\ int_on' = IrqOff(CpuState).on
    /\ sync_depth' = IrqOff(CpuState).depth
    /\ iq_pc' = "w_attempt"
    /\ UNCHANGED <<iq_path, iq_entry, iq_polls, iq_irq>>
    /\ UNCHANGED <<avars, xvars, ivars, wvars, mvars, lvars, gvars, pvars>>

\* do { write the sector; read it back } while (buffer_compare(...))
IqRetryAttempt(cmp) ==
    /\ iq_pc = "w_attempt"
    /\ iq_polls' = Min(iq_polls + 1, MaxAttempts)
    /\ iq_pc' = IF RetryAgain(cmp, iq_polls) THEN "w_attempt" ELSE "w_res"
    /\ UNCHANGED <<int_on, sync_depth, iq_path, iq_entry, iq_irq>>
    /\ UNCHANGED <<avars, xvars, ivars, wvars, mvars, lvars, gvars, pvars>>

\* IRQ_RES; free(read_buf); return
IqRetryRes ==
    /\ iq_pc = "w_res"
    /\ int_on' = IrqRes(CpuState).on
    /\ sync_depth' = IrqRes(CpuState).depth
    /\ iq_pc' = "returned"
    /\ UNCHANGED <<iq_path, iq_entry, iq_polls, iq_irq>>
    /\ UNCHANGED <<avars, xvars, ivars, wvars, mvars, lvars, gvars, pvars>>

\* the drive raises its interrupt line: at the end of the DMA transfer, or
\* after a PIO command of the write-verify loop
IqRaise ==
    /\ iq_pc \in {"r_spin", "w_attempt"}
    /\ iq_irq = "none"
    /\ iq_irq' = "pending"
    /\ UNCHANGED <<int_on, sync_depth, iq_pc, iq_path, iq_entry, iq_polls>>
    /\ UNCHANGED <<avars, xvars, ivars, wvars, mvars, lvars, gvars, pvars>>

\* the CPU takes a pending interrupt only with interrupts enabled; the
\* handler returns to the interrupted code with the flag as it was
IqHandler ==
    /\ iq_irq = "pending"
    /\ int_on
    /\ iq_irq' = "served"
    /\ UNCHANGED <<int_on, sync_depth, iq_pc, iq_path, iq_entry, iq_polls>>
    /\ UNCHANGED <<avars, xvars, ivars, wvars, mvars, lvars, gvars, pvars>>

\* ------------------------------------------------------------------------
\* The unix pipe: read_unixpipe, write_unixpipe, close_read_pipe,
\* close_write_pipe
UNIX_PIPE_BUFFER == 2
MaxPipeBytes == 3
MaxRead == 2

Newline == 10
PipeBytes == {Newline, 65}

\* the byte sequences a writer passes
PipeData == {<<>>} \cup {<<x>> : x \in PipeBytes} \cup {<<x, y>> : x, y \in PipeBytes}

\* ring_buffer_unread(self->buffer)
ring_buffer_unread(rb) == Len(rb)

AtEof_Never(wc, unread) == FALSE

\* self->write_closed && !ring_buffer_unread(self->buffer)
AtEof(wc, unread) == wc /\ unread = 0

IsNewline_Never(r, byte) == FALSE

\* r && *((char *)(buffer + read)) == '\n'
IsNewline(r, byte) == r # 0 /\ byte = Newline

WriteStops_Never(rc) == FALSE

\* if (self->read_closed)
WriteStops(rc) == rc

PipeInit ==
    /\ ring = <<>>
    /\ read_closed = FALSE
    /\ write_closed = FALSE
    /\ rd_pc = "idle"
    /\ rd_size = 0
    /\ rd_read = 0
    /\ rd_buf = <<>>
    /\ rd_ret = 0
    /\ rd_taken = 0
    /\ wr_pc = "idle"
    /\ wr_data = <<>>
    /\ wr_written = 0
    /\ wr_ret = 0
    /\ wr_sig = FALSE
    /\ wr_entry_closed = FALSE
    /\ written_all = <<>>
    /\ delivered = <<>>

\* the first n bytes of the reader's buffer
Got(n) == SubSeq(rd_buf, 1, n)

\* a caller enters read_unixpipe: size_t read = 0;
RdCall(sz) ==
    /\ rd_pc \in {"idle", "returned"}
    /\ rd_pc' = "loop"
    /\ rd_size' = sz
    /\ rd_read' = 0
    /\ rd_taken' = 0
    /\ rd_buf' = [i \in 1..sz |-> Untouched]
    /\ UNCHANGED <<ring, read_closed, write_closed, rd_ret, wr_pc, wr_data, wr_written, wr_ret,
                   wr_sig, wr_entry_closed, written_all, delivered>>
    /\ UNCHANGED <<avars, xvars, ivars, wvars, mvars, lvars, gvars, qvars>>

\* while (read < size) { if (self->write_closed && !ring_buffer_unread(...))
\* return read; ... } return read;
RdLoop ==
    /\ rd_pc = "loop"
    /\ IF rd_read < rd_size /\ ~AtEof(write_closed, ring_buffer_unread(ring))
       THEN /\ rd_pc' = "ring_read"
            /\ UNCHANGED <<rd_ret, delivered>>
       ELSE /\ rd_pc' = "returned"
            /\ rd_ret' = rd_read
            /\ delivered' = delivered \o Got(rd_read)
    /\ UNCHANGED <<ring, read_closed, write_closed, rd_size, rd_read, rd_buf, rd_taken, wr_pc,
                   wr_data, wr_written, wr_ret, wr_sig, wr_entry_closed, written_all>>
    /\ UNCHANGED <<avars, xvars, ivars, wvars, mvars, lvars, gvars, qvars>>

\* size_t r = ring_buffer_read(self->buffer, 1, buffer+read); the newline
\* test; read += r. On an empty ring the call sleeps, and comes back with 0
\* when the sleep is interrupted.
RdRing ==
    /\ rd_pc = "ring_read"
    /\ IF ring_buffer_unread(ring) > 0
       THEN /\ ring' = Tail(ring)
            /\ rd_buf' = [rd_buf EXCEPT ![rd_read + 1] = Head(ring)]
            /\ rd_taken' = rd_taken + 1
            /\ IF IsNewline(1, Head(ring))
               THEN /\ rd_pc' = "returned"
                    /\ rd_ret' = rd_read + 1
                    /\ delivered' = delivered \o Got(rd_read) \o <<Head(ring)>>
                    /\ UNCHANGED rd_read
               ELSE /\ rd_pc' = "loop"
                    /\ rd_read' = rd_read + 1
                    /\ UNCHANGED <<rd_ret, delivered>>
       ELSE /\ rd_pc' = "loop"
            /\ UNCHANGED <<ring, rd_buf, rd_taken, rd_read, rd_ret, delivered>>
    /\ UNCHANGED <<read_closed, write_closed, rd_size, wr_pc, wr_data, wr_written, wr_ret,
                   wr_sig, wr_entry_closed, written_all>>
    /\ UNCHANGED <<avars, xvars, ivars, wvars, mvars, lvars, gvars, qvars>>

\* a caller enters write_unixpipe: size_t written = 0;
WrCall(data) ==
    /\ wr_pc \in {"idle", "returned"}
    /\ Len(written_all) + Len(data) <= MaxPipeBytes
    /\ wr_pc' = "loop"
    /\ wr_data' = data
    /\ wr_written' = 0
    /\ wr_sig' = FALSE
    /\ wr_entry_closed' = read_closed
    /\ UNCHANGED <<ring, read_closed, write_closed, rd_pc, rd_size, rd_read, rd_buf, rd_ret,
                   rd_taken, wr_ret, written_all, delivered>>
    /\ UNCHANGED <<avars, xvars, ivars, wvars, mvars, lvars, gvars, qvars>>

\* while (written < size) { if (self->read_closed) { send_signal(getpid(),
\* SIGPIPE); return written; } ... } return written;
WrLoop ==
    /\ wr_pc = "loop"
    /\ IF wr_written < Len(wr_data)
       THEN IF WriteStops(read_closed)
            THEN /\ wr_sig' = TRUE
                 /\ wr_pc' = "returned"
                 /\ wr_ret' = wr_written
            ELSE /\ wr_pc' = "ring_write"
                 /\ UNCHANGED <<wr_sig, wr_ret>>
       ELSE /\ wr_pc' = "returned"
            /\ wr_ret' = wr_written
            /\ UNCHANGED wr_sig
    /\ UNCHANGED <<ring, read_closed, write_closed, rd_pc, rd_size, rd_read, rd_buf, rd_ret,
                   rd_taken, wr_data, wr_written, wr_entry_closed, written_all, delivered>>
    /\ UNCHANGED <<avars, xvars, ivars, wvars, mvars, lvars, gvars, qvars>>

\* size_t w = ring_buffer_write(self->buffer, 1, buffer+written); written +=
\* w. On a full ring the call sleeps, and comes back with 0 when the sleep
\* is interrupted.
WrRing ==
    /\ wr_pc = "ring_write"
    /\ IF ring_buffer_unread(ring) < UNIX_PIPE_BUFFER
       THEN /\ ring' = Append(ring, wr_data[wr_written + 1])
            /\ written_all' = Append(written_all, wr_data[wr_written + 1])
            /\ wr_written' = wr_written + 1
       ELSE UNCHANGED <<ring, written_all, wr_written>>
    /\ wr_pc' = "loop"
    /\ UNCHANGED <<read_closed, write_closed, rd_pc, rd_size, rd_read, rd_buf, rd_ret, rd_taken,
                   wr_data, wr_ret, wr_sig, wr_entry_closed, delivered>>
    /\ UNCHANGED <<avars, xvars, ivars, wvars, mvars, lvars, gvars, qvars>>

\* close_read_pipe: self->read_closed = 1;
close_read_pipe ==
    /\ ~read_closed
    /\ read_closed' = TRUE
    /\ UNCHANGED <<ring, write_closed, rd_pc, rd_size, rd_read, rd_buf, rd_ret, rd_taken, wr_pc,
                   wr_data, wr_written, wr_ret, wr_sig, wr_entry_closed, written_all, delivered>>
    /\ UNCHANGED <<avars, xvars, ivars, wvars, mvars, lvars, gvars, qvars>>

\* close_write_pipe: self->write_closed = 1;
close_write_pipe ==
    /\ ~write_closed
    /\ write_closed' = TRUE
    /\ UNCHANGED <<ring, read_closed, rd_pc, rd_size, rd_read, rd_buf, rd_ret, rd_taken, wr_pc,
                   wr_data, wr_written, wr_ret, wr_sig, wr_entry_closed, written_all, delivered>>
    /\ UNCHANGED <<avars, xvars, ivars, wvars, mvars, lvars, gvars, qvars>>

OtherInit ==
    /\ PioInit
    /\ LgInit
    /\ IrqInit([on |-> TRUE, depth |-> 0])
    /\ PipeInit

AInit(j) ==
    /\ disk = InitDisk
    /\ dma_start = [k \in 0..(SectorSize - 1) |-> j]
    /\ pc = "idle"
    /\ cur = [op |-> "none", offset |-> 0, size |-> 0, junk |-> 90, data |-> NoData, disk0 |-> InitDisk]
    /\ prev = NoCall
    /\ ncalls = 0
    /\ start_block = 0
    /\ end_block = 0
    /\ x_offset = 0
    /\ size = 0
    /\ buffer = [i \in 0..(MemLen - 1) |-> Untouched]
    /\ ret = 0
    /\ ops = <<>>
    /\ xfers = <<>>
    /\ touched = {}
    /\ tmp = NoTmp
    /\ attempts = 0
    /\ heap = NoHeap

Init ==
    /\ \E j \in JunkBytes : AInit(j)
    /\ XInit
    /\ WaitInit
    /\ \E ident \in HdaIdentities : IAfterInit(ident)
    /\ RmwInit(SectorOf(1))
    /\ OtherInit

Next ==
    \/ \E op \in Ops : \E offset \in 0..(MaxOffsetOf(op) + 1), sz \in 0..MaxSize :
          \E j \in (IF op = "write_ata" THEN JunkBytes ELSE {90}),
             eb \in EndBlocks(offset, sz, SectorSizeOf(op)),
             pat \in (IF op = "write_ata" /\ pc = "idle" THEN Patterns ELSE {0}) :
                Call(op, offset, sz, j, eb, pat)
    \/ Prefix
    \/ Postfix
    \/ Loop
    \/ WriteSectorRetry
    \/ Return

vars == <<avars, xvars, ivars, wvars, mvars, ovars>>

Spec == Init /\ [][Next]_vars

InitXfer ==
    /\ AInit(90)
    /\ XInit
    /\ WaitInit
    /\ IInit(13)
    /\ RmwInit(SectorOf(1))
    /\ OtherInit

NextXfer ==
    \/ \E p \in Callers, kind \in {"read", "write_retry", "read_atapi"}, dev \in Devices, lba \in XLbas :
          XCall(p, kind, dev, lba)
    \/ \E p \in Callers : RLock(p)
    \/ \E p \in Callers : RSetup(p)
    \/ \E p \in Callers : RCommand(p)
    \/ \E p \in Callers : RSpin(p)
    \/ \E p \in Callers : RCopy(p)
    \/ \E p \in Callers : RUnlock(p)
    \/ \E dev \in Devices : DevDmaComplete(dev)
    \/ \E dev \in Devices, intr \in BOOLEAN : DevDmaError(dev, intr)
    \/ \E p \in Callers : WLock(p)
    \/ \E p \in Callers : WCommand(p)
    \/ \E p \in Callers : WData(p)
    \/ \E p \in Callers : WUnlock(p)
    \/ \E p \in Callers : WCompare(p)
    \/ \E p \in Callers : ALock(p)
    \/ \E p \in Callers : ASelect(p)
    \/ \E dev \in Devices, st \in {"pkt_wait", "err"} : DevPacketReady(dev, st)
    \/ \E p \in Callers : APoll1(p)
    \/ \E p \in Callers : AFlag(p)
    \/ \E p \in Callers : APacket(p)
    \/ \E p \in Callers : ASleep(p)
    \/ \E p \in Callers : AClear(p)
    \/ \E dev \in Devices, st \in {"pkt_data", "err"} : DevPacketComplete(dev, st)
    \/ \E p \in Callers : APoll2(p)
    \/ \E p \in Callers : AData(p)
    \/ \E dev \in Devices, st \in {"pkt_done", "err"} : DevPacketDone(dev, st)
    \/ \E p \in Callers : APoll3(p)
    \/ \E p \in Callers : AUnlock(p)
    \/ \E l \in Lines : IrqEnter(l)
    \/ \E l \in Lines : IrqFinish(l)

SpecXfer == InitXfer /\ [][NextXfer]_vars

InitInit ==
    /\ AInit(90)
    /\ XInit
    /\ WaitInit
    /\ \E b \in BarValues : IInit(b)
    /\ RmwInit(SectorOf(1))
    /\ OtherInit

NextInit ==
    \/ Initialize
    \/ \E sg \in Signatures, ident \in Identities, res \in ProbeResults :
          Detect(sg[1], sg[2], ident, res)
    \/ \E k \in 1..4 : NodeRead(k)
    \/ \E k \in 1..4 : NodeWrite(k)

SpecInit == InitInit /\ [][NextInit]_vars

InitWait ==
    /\ AInit(90)
    /\ XInit
    /\ IInit(13)
    /\ WaitInit
    /\ RmwInit(SectorOf(1))
    /\ OtherInit

NextWait ==
    \/ \E timeout \in Timeouts : StatusWaitCall(timeout)
    \/ \E status \in StatusBytes : StatusWaitPoll(status)

SpecWait == InitWait /\ [][NextWait]_vars

InitRmw ==
    /\ AInit(90)
    /\ XInit
    /\ IInit(13)
    /\ WaitInit
    /\ \E sec \in RmwSectors : RmwInit(sec)
    /\ OtherInit

RmwStep(p) ==
    \/ \E kind \in {"partial", "full"} : RmwCall(p, kind)
    \/ RmwRead(p)
    \/ RmwWrite(p)
    \/ RmwVerify(p)

NextRmw == \E p \in Callers : RmwStep(p)

SpecRmw == InitRmw /\ [][NextRmw]_vars

\* the same under a scheduler that lets every caller run again and again
SpecRmwFair == SpecRmw /\ \A p \in Callers : WF_vars(RmwStep(p))

InitPio ==
    /\ AInit(90)
    /\ XInit
    /\ IInit(13)
    /\ WaitInit
    /\ RmwInit(SectorOf(1))
    /\ OtherInit

NextPio ==
    \/ \E p \in Callers : PioCall(p)
    \/ \E p \in Callers : PioLock(p)
    \/ \E p \in Callers : PioCommand(p)
    \/ \E p \in Callers, status \in PioStatusBytes : PioWait(p, status)

SpecPio == InitPio /\ [][NextPio]_vars

InitLegacy ==
    /\ \E ident \in HdaIdentities : IAfterInit(ident)
    /\ AInit(90)
    /\ XInit
    /\ WaitInit
    /\ RmwInit(SectorOf(1))
    /\ OtherInit

NextLegacy ==
    \/ \E offset \in 0..(ata_max_offset(hda) + 1), sz \in 0..MaxSize, j \in JunkBytes :
          LgCall(offset, sz, j)
    \/ LgPrefix
    \/ LgPostfix
    \/ \E passes \in BOOLEAN : LgLoop(passes)
    \/ LgReturn

SpecLegacy == InitLegacy /\ [][NextLegacy]_vars

InitIrq ==
    /\ AInit(90)
    /\ XInit
    /\ IInit(13)
    /\ WaitInit
    /\ RmwInit(SectorOf(1))
    /\ PioInit
    /\ LgInit
    /\ PipeInit
    /\ \E st \in EntryStates : IrqInit(st)

NextIrq ==
    \/ \E path \in {"dma_read", "dma_read_atapi", "pio_write_retry"} : IqCall(path)
    \/ IqReadSetup
    \/ \E done \in BOOLEAN : IqReadSpin(done)
    \/ IqReadOff
    \/ IqRetryOff
    \/ \E cmp \in {0, 1} : IqRetryAttempt(cmp)
    \/ IqRetryRes
    \/ IqRaise
    \/ IqHandler

SpecIrq == InitIrq /\ [][NextIrq]_vars

InitPipe ==
    /\ AInit(90)
    /\ XInit
    /\ IInit(13)
    /\ WaitInit
    /\ RmwInit(SectorOf(1))
    /\ OtherInit

NextPipe ==
    \/ \E sz \in 0..MaxRead : RdCall(sz)
    \/ RdLoop
    \/ RdRing
    \/ \E data \in PipeData : WrCall(data)
    \/ WrLoop
    \/ WrRing
    \/ close_read_pipe
    \/ close_write_pipe

SpecPipe == InitPipe /\ [][NextPipe]_vars

\* ------------------------------------------------------------------------
\* Claims on the byte-range adapter (specification Spec)
\* ------------------------------------------------------------------------
RECURSIVE SumBytes(_)
SumBytes(log) == IF log = <<>> THEN 0 ELSE Head(log).bytes + SumBytes(Tail(log))

Kinds(log, kind) == {i \in DOMAIN log : log[i].kind = kind}

InRange == cur.offset + cur.size <= MaxOffsetOf(cur.op)
SameSector == cur.size >= 1 /\ (cur.offset \div SectorSize) = ((cur.offset + cur.size - 1) \div SectorSize)

\* C1: after a write_ata(offset, size, buf) within capacity has returned, a
\* read_ata(offset, size) that returns gives back size bytes equal to buf.
C1_WriteThenRead ==
    (pc = "returned" /\ cur.op = "read_ata" /\ prev.op = "write_ata" /\ InRange)
        => /\ ret = cur.size
           /\ \A i \in 0..(cur.size - 1) : buffer[i] = prev.data[i]

\* C1 witness: the pair has run on an unaligned range inside one sector
C1_Witness ==
    /\ pc = "returned" /\ cur.op = "read_ata" /\ prev.op = "write_ata" /\ InRange
    /\ cur.offset % SectorSize # 0
    /\ SameSector
    /\ cur.size < SectorSize - (cur.offset % SectorSize)

\* C2: read_ata(offset, size) followed by write_ata(offset, size, the bytes
\* read) within capacity leaves every byte of the device as it was before
\* the two calls.
C2_ReadThenWriteBack ==
    (pc = "returned" /\ cur.op = "write_ata" /\ prev.op = "read_ata" /\ InRange /\ cur.size >= 1)
        => disk = prev.disk0

\* C3: a request with offset < C and offset + size > C returns C - offset.
C3_ClampedReturn ==
    (pc = "returned" /\ cur.op \in Ops /\ cur.offset < MaxOffsetOf(cur.op) /\ ~InRange)
        => ret = MaxOffsetOf(cur.op) - cur.offset

\* C3 witness: read_ata has returned C - offset from a clamped request that
\* starts at an unaligned offset.
C3_Witness ==
    /\ pc = "returned" /\ cur.offset < MaxOffsetOf(cur.op) /\ ~InRange
    /\ cur.op = "read_ata"
    /\ cur.offset % SectorSize # 0
    /\ ret = MaxOffsetOf(cur.op) - cur.offset

\* C4: for offset >= capacity read_ata and write_ata return 0 and issue no
\* sector transfer.
C4_OutOfRangeNoIO ==
    (cur.op \in {"read_ata", "write_ata"} /\ cur.offset >= MaxOffsetOf(cur.op))
        => /\ xfers = <<>>
           /\ ops = <<>>
           /\ pc = "returned" => ret = 0

\* C5: the sector operations of a returned call cover exactly the sectors
\* offset/S .. (offset+size-1)/S of the clamped request, with at most one
\* prefix and one postfix operation, and their byte counts sum to size.
C5_Planner ==
    (pc = "returned" /\ cur.op \in Ops /\ InRange /\ cur.size >= 1)
        => LET S == SectorSizeOf(cur.op)
           IN  /\ {ops[i].lba : i \in DOMAIN ops} = (cur.offset \div S)..((cur.offset + size - 1) \div S)
               /\ Cardinality(Kinds(ops, "prefix")) <= 1
               /\ Cardinality(Kinds(ops, "postfix")) <= 1
               /\ SumBytes(ops) = size

\* ------------------------------------------------------------------------
\* Claims on the sector transport (specification SpecXfer)
\* ------------------------------------------------------------------------
LockWait == {"r_lock", "w_lock", "a_lock"}
PacketPhase == {"a_packet", "a_sleep", "a_asleep", "a_woken"}

\* C6: transfers of concurrent callers are serialized by ata_lock: at most
\* one caller is inside a hardware transaction, it is the lock holder, and
\* at most one device is executing a command.
C6_Serialized ==
    /\ Cardinality(open) <= 1
    /\ \A p \in open : lock = p
    /\ Cardinality({d \in Devices : ~BsyClear(d)}) <= 1

\* C6 witness: one caller is in the middle of its transfer while the other
\* waits in spin_lock
C6_Witness ==
    \E p \in Callers, q \in Callers :
        p # q /\ q \in open /\ lock = q /\ xpc[p] \in LockWait /\ xreq[p].dev # xreq[q].dev

\* C7: a caller that calls sleep_on(atapi_waiter), or is asleep on the
\* queue, does not hold ata_lock.
C7_NoLockAcrossSleep ==
    \A p \in Callers : xpc[p] \in {"a_sleep", "a_asleep"} => lock # p

\* C8: no lost wakeup: while a caller is asleep on the queue after its
\* packet, its wakeup is still to come (the drive has yet to raise the
\* completion interrupt, or an interrupt awaits its handler, or a handler
\* that saw the flag is about to wake the queue).
C8_NoLostWakeup ==
    \A p \in Callers : xpc[p] = "a_asleep" =>
        \/ hw[xreq[p].dev] = "pkt_busy"
        \/ \E l \in Lines : irq[l]
        \/ \E l \in Lines : hpc[l] = "decided" /\ hobs[l] # 0

\* C9 as stated: atapi_in_progress is set only while a caller is asleep on
\* the wait queue, and a handler wakes the queue only when it saw the flag.
C9_FlagOnlyWhileAsleep ==
    /\ atapi_in_progress = 1 => atapi_waiter # {}
    /\ \A l \in Lines : woke[l] => hobs[l] = 1

\* C9 amended: atapi_in_progress is set only while the lock holder is in the
\* packet phase of an ATAPI read (from setting the flag, through writing
\* the packet and the sleep, to clearing it after the wakeup); a caller on
\* the queue always has the flag set; a handler wakes the queue only when it
\* saw the flag.
C9_FlagOnlyInPacketPhase ==
    /\ atapi_in_progress = 1 => \E p \in Callers : lock = p /\ xpc[p] \in PacketPhase
    /\ atapi_waiter # {} => atapi_in_progress = 1
    /\ \A l \in Lines : woke[l] => hobs[l] = 1

\* C9 witness: a handler that saw the flag has woken the sleeping caller,
\* which has not cleared the flag yet
C9_Witness ==
    \E l \in Lines, p \in Callers :
        woke[l] /\ hobs[l] = 1 /\ xpc[p] = "a_woken" /\ atapi_in_progress = 1

\* C10: ata_device_write_sector_retry returns only after a read-back,
\* issued after the write, that equals the caller's sector.
C10_VerifiedBeforeReturn ==
    \A p \in Callers :
        (xreq[p].kind = "write_retry" /\ xpc[p] = "returned")
            => read_buf[p] = CallerSector(p) /\ last2[p] = <<"w", "r">>

\* C10 witness: a retry that failed its compare once has returned
C10_Witness ==
    \E p \in Callers : xreq[p].kind = "write_retry" /\ xpc[p] = "returned" /\ retried[p]

\* ------------------------------------------------------------------------
\* Claims on the write-verify retry
\* ------------------------------------------------------------------------
InRetry == pc \in {"prefix_w", "postfix_w", "loop_w"}

\* C11: the write-verify retry has no attempt cap: whenever an attempt's
\* read-back differs from the written sector, whatever the number of attempts
\* already made, write_ata stays in the retry loop and does not return.
C11_NoAttemptCap ==
    [][(InRetry /\ attempts' > 0 /\ buffer_compare(AttemptBuf, dma_start') # 0)
          => (pc' = pc /\ pc' # "returned")]_vars

\* C11 witness: the attempt counter has reached its bound with the read-back
\* still different and the call still in the retry loop
C11_Witness ==
    /\ InRetry
    /\ attempts = MaxAttempts
    /\ buffer_compare(AttemptBuf, dma_start) # 0

AttemptFrame == <<"WRITE_PIO", "DATA_OUT", "CACHE_FLUSH", "READ_DMA">>
Alone(p) == \A q \in Callers \ {p} : xreq[q].kind = "none"

\* C12: every attempt of ata_device_write_sector_retry puts on the bus, in
\* this order, one WRITE PIO, the sector's data words, one CACHE FLUSH and one
\* verifying READ DMA; a caller that is alone on a device that stores what is
\* written and reports no error returns after exactly one attempt.
C12_AttemptSequence ==
    \A p \in Callers : xreq[p].kind = "write_retry" =>
        /\ \A i \in DOMAIN cmds[p] : cmds[p][i] = AttemptFrame[((i - 1) % 4) + 1]
        /\ xpc[p] \in {"w_compare", "returned"} => (Len(cmds[p]) > 0 /\ Len(cmds[p]) % 4 = 0)
        /\ (xpc[p] = "returned" /\ Alone(p) /\ xreq[p].dev \notin faulted) => cmds[p] = AttemptFrame

\* C12 witness: a single caller's sector write has returned after one attempt
C12_Witness ==
    \E p \in Callers :
        /\ xreq[p].kind = "write_retry" /\ xpc[p] = "returned" /\ Alone(p)
        /\ cmds[p] = AttemptFrame

\* ------------------------------------------------------------------------
\* Claims on module initialisation and the published nodes (SpecInit)
\* ------------------------------------------------------------------------
NodeIsPata(n) == n.read = "read_ata"
Probed(i) == i < islot
SlotOf(dev) == CHOOSE i \in 1..4 : SlotDev[i] = dev
MountsOf(kind) == {k \in DOMAIN mounts : mounts[k].path[1] = kind}

\* C13: every published node's length equals its device's capacity in
\* bytes: sector count x sector size for PATA, (atapi_lba + 1) x block
\* length for ATAPI.
C13_NodeLength ==
    \A k \in DOMAIN mounts :
        LET n == mounts[k].node
        IN  n.length = IF NodeIsPata(n) THEN ata_max_offset(identity[n.device])
                       ELSE atapi_max_offset(atapi_geom[n.device])

\* C14: an ATAPI slot whose capacity probe found no medium (last LBA 0)
\* still gets its /dev/cdrom<n> node.
C14_NoMediumNode ==
    \A i \in 1..4 :
        (Probed(i) /\ probe[SlotDev[i]].end = "data" /\ probe[SlotDev[i]].lba = 0)
            => \E k \in MountsOf("cdrom") : mounts[k].node.device = SlotDev[i]

SigPata == {<<0, 0>>, <<60, 195>>}
SigAtapi == {<<20, 235>>, <<105, 150>>}
DetectStep == islot \in 1..4 /\ islot' = islot + 1
Skipped == mounts' = mounts /\ ata_drive_char' = ata_drive_char /\ cdrom_number' = cdrom_number
MountedAs(kind, idx) ==
    /\ Len(mounts') = Len(mounts) + 1
    /\ SubSeq(mounts', 1, Len(mounts)) = mounts
    /\ mounts'[Len(mounts')].path = <<kind, idx>>
    /\ mounts'[Len(mounts')].node.device = SlotDev[islot]

C16_Naming ==
    /\ ata_drive_char = Cardinality(MountsOf("hd"))
    /\ cdrom_number = Cardinality(MountsOf("cdrom"))
    /\ \A k \in DOMAIN mounts :
          /\ mounts[k].path[1] \in {"hd", "cdrom"}
          /\ mounts[k].path[2] = Cardinality({j \in MountsOf(mounts[k].path[1]) : j < k})
          /\ mounts[k].node.name[2] = mounts[k].path[2]
          /\ mounts[k].node.name[1] = (IF mounts[k].path[1] = "hd" THEN "atadev" ELSE "cdrom")
          /\ NodeIsPata(mounts[k].node) <=> mounts[k].path[1] = "hd"
    /\ \A k, l \in DOMAIN mounts : k < l => SlotOf(mounts[k].node.device) < SlotOf(mounts[l].node.device)

\* C16 witness: initialisation is over with two hard disks and two optical
\* drives mounted, the kinds interleaved across the four slots
C16_Witness ==
    /\ islot = 5
    /\ Len(mounts) = 4
    /\ mounts[1].path = <<"cdrom", 0>>
    /\ mounts[2].path = <<"hd", 0>>
    /\ mounts[3].path = <<"cdrom", 1>>
    /\ mounts[4].path = <<"hd", 1>>

\* C17: when PCI BAR4 is not an I/O-space BAR, a read on a hard disk writes
\* no bus-master register and issues no READ DMA.
C17_NoDmaWithoutIoBar ==
    (lastop.op = "read" /\ NodeIsPata(mounts[lastop.node].node) /\ pci_bar4 % 2 = 0)
        => /\ "READ_DMA" \notin lastop.issued
           /\ lastop.ports = {}

\* C20: no operation on an ATAPI node puts WRITE PIO, data-out words or
\* CACHE FLUSH on the bus, and a write on an ATAPI node fails without any
\* bus activity.
C20_AtapiNoWrite ==
    (lastop.op # "none" /\ ~NodeIsPata(mounts[lastop.node].node))
        => /\ lastop.issued \cap {"WRITE_PIO", "DATA_OUT", "CACHE_FLUSH"} = {}
           /\ lastop.op = "write" => (lastop.ret < 0 /\ lastop.issued = {} /\ lastop.ports = {})

\* C20 witness: a write has been attempted on a mounted optical drive
C20_Witness ==
    /\ lastop.op = "write"
    /\ mounts[lastop.node].path[1] = "cdrom"
    /\ dev_is_atapi[mounts[lastop.node].node.device] = 1

\* ------------------------------------------------------------------------
\* Claims on ATAPI error handling
\* ------------------------------------------------------------------------
\* C18: when an ATAPI sector read of a read_atapi call ended in ERR, the call
\* returns fewer bytes than were asked for.
C18_ErrShortensRead ==
    (pc = "returned" /\ cur.op = "read_atapi" /\ cur.size >= 1 /\ InRange
        /\ \E i \in DOMAIN ops : ops[i].err)
        => ret < cur.size

HeldPcs == {"r_setup", "r_cmd", "r_spin", "r_copy", "r_unlock",
            "w_setup", "w_data", "w_unlock",
            "a_select", "a_poll1", "a_flag", "a_packet", "a_sleep", "a_asleep", "a_woken",
            "a_poll2", "a_data", "a_poll3", "a_unlock"}

\* C19: ata_lock is held by a caller exactly while that caller is between the
\* spin_lock and the spin_unlock of one sector function, so every path that
\* takes the lock, the ATAPI abort paths included, gives it up once before it
\* returns, and the lock is free whenever no sector function is executing.
C19_LockReleased ==
    /\ lock \in Callers \cup {"free"}
    /\ \A p \in Callers : (lock = p) <=> (xpc[p] \in HeldPcs)
    /\ (\A p \in Callers : xpc[p] \in {"idle", "returned"}) => lock = "free"

\* C19 witness: an ATAPI read whose drive set ERR after the wakeup has
\* returned without a data phase, and the lock is free
C19_Witness ==
    \E p \in Callers :
        /\ xreq[p].kind = "read_atapi"
        /\ xpc[p] = "returned"
        /\ cmds[p] = <<"PACKET", "READ12">>
        /\ lock = "free"

\* ------------------------------------------------------------------------
\* Claims on capacity and on single transfers
\* ------------------------------------------------------------------------
\* the capacity of the hard disk as the claim words it
HdaCapacity ==
    SectorSize * (IF identity["pm"].sectors_48 # 0 THEN identity["pm"].sectors_48
                  ELSE identity["pm"].sectors_28)

\* C21: the PATA capacity is sector size x sectors_48 when sectors_48 is
\* non-zero and sector size x sectors_28 otherwise, and that value is the
\* bound of the out-of-range test and of the clamp in read_ata and write_ata.
C21_Capacity ==
    (cur.op \in {"read_ata", "write_ata"})
        => /\ MaxOffsetOf(cur.op) = HdaCapacity
           /\ cur.offset > HdaCapacity => (pc = "returned" /\ ret = 0 /\ ops = <<>>)
           /\ cur.offset <= HdaCapacity =>
                 size = (IF cur.offset + cur.size > HdaCapacity THEN HdaCapacity - cur.offset
                         ELSE cur.size)

\* C21 witness: on a drive with a non-zero sectors_48 that differs from its
\* sectors_28, a read that reaches past the capacity has been clamped
C21_Witness ==
    /\ identity["pm"].sectors_48 # 0
    /\ identity["pm"].sectors_48 # identity["pm"].sectors_28
    /\ cur.op = "read_ata" /\ pc = "returned"
    /\ cur.offset < HdaCapacity /\ cur.offset + cur.size > HdaCapacity
    /\ ret = HdaCapacity - cur.offset

\* byte a of the medium d, addressed as one flat range of bytes
FlatByte(d, a) == d[a \div SectorSize][a % SectorSize]

\* the request of the example at the scale of the model: it starts inside
\* sector 0, is longer than one sector and shorter than two, and ends
\* inside the sector after the next (offset 100, size 1000 with 512-byte
\* sectors; offset 2, size 5 with SectorSize-byte sectors)
LikeRead100x1000 ==
    /\ cur.op = "read_ata"
    /\ cur.offset > 0 /\ cur.offset < SectorSize
    /\ cur.size > SectorSize /\ cur.size < 2 * SectorSize
    /\ cur.offset + cur.size > 2 * SectorSize
    /\ cur.offset + cur.size <= HdaCapacity

\* C22 as stated: that read returns all its bytes and issues exactly two
\* sector reads, of sectors 0 and 1.
C22_TwoSectorReads ==
    (pc = "returned" /\ LikeRead100x1000)
        => /\ ret = cur.size
           /\ xfers = <<[dir |-> "r", lba |-> 0], [dir |-> "r", lba |-> 1]>>
           /\ \A i \in 0..(cur.size - 1) : buffer[i] = FlatByte(cur.disk0, cur.offset + i)

\* C22: that read returns all its bytes and issues exactly three sector
\* reads, sector 0 for the partial head, sector 2 for the partial tail, then
\* sector 1 whole; the bytes returned are the bytes of the medium from
\* offset on: the rest of sector 0, all of sector 1, the start of sector 2.
C22_ThreeSectorReads ==
    (pc = "returned" /\ LikeRead100x1000)
        => /\ ret = cur.size
           /\ xfers = <<[dir |-> "r", lba |-> 0], [dir |-> "r", lba |-> 2], [dir |-> "r", lba |-> 1]>>
           /\ \A i \in 0..(cur.size - 1) : buffer[i] = FlatByte(cur.disk0, cur.offset + i)
           /\ \A i \in 0..(cur.size - 1) :
                 buffer[i] = (IF i < SectorSize - cur.offset
                              THEN cur.disk0[0][cur.offset + i]
                              ELSE IF i < 2 * SectorSize - cur.offset
                              THEN cur.disk0[1][i - (SectorSize - cur.offset)]
                              ELSE cur.disk0[2][i - (2 * SectorSize - cur.offset)])

\* C22 witness: the read of the example has returned
C22_Witness ==
    /\ pc = "returned" /\ LikeRead100x1000
    /\ ret = cur.size /\ Len(xfers) = 3
    /\ buffer[cur.size - 1] = cur.disk0[2][cur.offset + cur.size - 2 * SectorSize - 1]

\* callers whose ata_device_read_sector_atapi has taken in its data and
\* come back
AtapiReadDone(p) ==
    /\ xreq[p].kind = "read_atapi"
    /\ xpc[p] = "returned"
    /\ last2[p] = <<"r">>

\* how many PACKET commands are in a caller's bus log
PacketCount(p) == Cardinality({i \in DOMAIN cmds[p] : cmds[p][i] = "PACKET"})

\* C23: a completed one-sector ATAPI read of block n has issued exactly one
\* PACKET command, followed by the twelve bytes A8 00 n3 n2 n1 n0 00 00 00 01
\* 00 00 (n big-endian in bytes 2-5, transfer length 1 in byte 9), has slept
\* exactly once on the wait queue, and hands back the contents of block n.
C23_OnePacketRead ==
    \A p \in Callers :
        AtapiReadDone(p)
            => LET n == xreq[p].lba
               IN  /\ PacketCount(p) = 1
                   /\ cmds[p] = <<"PACKET", "READ12", "DATA_IN">>
                   /\ DOMAIN packet[p] = 0..11
                   /\ packet[p][0] = 168
                   /\ packet[p][2] = (n \div 16777216) % 256
                   /\ packet[p][3] = (n \div 65536) % 256
                   /\ packet[p][4] = (n \div 256) % 256
                   /\ packet[p][5] = n % 256
                   /\ packet[p][9] = 1
                   /\ \A i \in {1, 6, 7, 8, 10, 11} : packet[p][i] = 0
                   /\ sleeps[p] = 1
                   /\ read_buf[p] = DiscBlock(n)

\* C23 witness: a caller has read block 1 of a disc that way, woken by the
\* handler of the drive's interrupt line
C23_Witness ==
    \E p \in Callers :
        /\ AtapiReadDone(p)
        /\ xreq[p].lba = 1
        /\ sleeps[p] = 1
        /\ woke[LineOf(xreq[p].dev)]
        /\ read_buf[p] = DiscBlock(1)

\* C24: a PATA sector read does not spin forever once the drive has ended
\* the command: while a caller is in the completion spin, either the drive
\* is still busy with the command or the spin's exit condition holds, so the
\* caller gets back out and releases ata_lock.
C24_ErrorEndsRead ==
    \A p \in Callers :
        xpc[p] = "r_spin" => (hw[xreq[p].dev] = "dma_busy" \/ bm_int[xreq[p].dev])

\* ------------------------------------------------------------------------
\* Claims on scratch buffers
\* ------------------------------------------------------------------------
\* C25: every scratch sector the byte-range calls and the write retry
\* allocate is freed exactly once before the call returns: no free releases
\* a sector that is not live, no pointer to a live sector is overwritten by
\* a new malloc, and once a call has returned (early or at its end) no
\* scratch sector is live.
C25_ScratchFreed ==
    /\ ~heap.bad
    /\ heap.live \subseteq {"tmp", "read_buf"}
    /\ pc \in {"idle", "returned"} => heap.live = {}

\* C25 witness: a write with a partial first and a partial last sector, which
\* allocates two scratch sectors and two read-back buffers, has returned
\* after a call that also used both
C25_Witness ==
    /\ pc = "returned"
    /\ cur.op = "write_ata"
    /\ \E i \in DOMAIN ops : ops[i].kind = "prefix"
    /\ \E i \in DOMAIN ops : ops[i].kind = "postfix"
    /\ prev.op # "none"
    /\ heap.live = {}

\* ------------------------------------------------------------------------
\* Claims on locking during initialisation
\* ------------------------------------------------------------------------
\* C26: every port access outside the IRQ handlers is made with ata_lock
\* held: each ata_device_detect step (soft reset, drive select, status
\* wait, signature read, and the IDENTIFY / DMA set-up or capacity probe it
\* goes on to) runs while ata_lock is taken.
C26_PortsUnderLock ==
    [][DetectStep => lock # "free"]_vars

\* ------------------------------------------------------------------------
\* Claims on the order of events within one DMA read
\* ------------------------------------------------------------------------
ReadFrame ==
    <<"BM_STOP", "PRDT", "BM_ARM", "REGS", "READ_DMA", "BM_START", "SEEN_DONE", "COPY", "UNLOCK">>
InRead == {"r_setup", "r_cmd", "r_spin", "r_copy", "r_unlock"}

\* C27: within one PATA DMA sector read the events happen in the order bus
\* master stopped, PRDT loaded, bus master armed for read, drive select and
\* LBA registers written, READ DMA issued, bus master started, completion
\* observed, copy to the caller, unlock; ata_lock is held from the first of
\* them until the unlock; and when the copy is about to be made bus-master
\* status bit 2 is set and the device is not busy.
C27_ReadOrder ==
    \A p \in Callers :
        /\ Len(rlog[p]) <= Len(ReadFrame)
        /\ rlog[p] = SubSeq(ReadFrame, 1, Len(rlog[p]))
        /\ xpc[p] \in InRead => (lock = p /\ Len(rlog[p]) < Len(ReadFrame))
        /\ xpc[p] = "r_spin" => Len(rlog[p]) = 6
        /\ xpc[p] = "r_copy" =>
              /\ Len(rlog[p]) = 7
              /\ bm_int[xreq[p].dev]
              /\ hw[xreq[p].dev] # "dma_busy"
        /\ xpc[p] = "r_unlock" => Len(rlog[p]) = 8
        /\ (xreq[p].kind = "read" /\ ~is_atapi(xreq[p].dev) /\ xpc[p] = "returned")
              => rlog[p] = ReadFrame

\* C27 witness: a sector read has gone through all of it and handed the
\* sector to its caller, with another caller waiting for the lock meanwhile
C27_Witness ==
    \E p \in Callers :
        /\ xreq[p].kind = "read" /\ xpc[p] = "returned"
        /\ rlog[p] = ReadFrame
        /\ xreq[p].dev \notin faulted
        /\ read_buf[p] = InitDisk[xreq[p].lba]
        /\ \E q \in Callers \ {p} : xreq[q].kind # "none"

\* ------------------------------------------------------------------------
\* Claims on the status wait
\* ------------------------------------------------------------------------
\* C28: with a positive timeout ata_status_wait makes at most timeout + 1
\* status reads: while it is still polling it has made exactly i reads, all
\* with BSY set, and i <= timeout, so the read after the timeout-th ends the
\* call whatever it shows. With timeout <= 0 it has returned only if its last
\* read had BSY clear, and after a read with BSY set it is still polling.
C28_StatusWait ==
    /\ sw_timeout > 0 =>
          /\ sw_reads <= sw_timeout + 1
          /\ sw_pc = "polling" => (sw_reads = sw_i /\ sw_i <= sw_timeout)
          /\ (sw_pc = "returned" /\ (sw_status \div 128) % 2 = 1) => sw_reads = sw_timeout + 1
    /\ sw_timeout <= 0 =>
          /\ sw_pc = "returned" => (sw_reads >= 1 /\ (sw_status \div 128) % 2 = 0)
          /\ (sw_reads >= 1 /\ (sw_status \div 128) % 2 = 1) => sw_pc = "polling"

\* C28 witness: a capped wait on a drive that stayed busy has returned after
\* timeout + 1 reads, the largest cap included
C28_Witness ==
    /\ sw_pc = "returned"
    /\ sw_timeout = MaxTimeout
    /\ sw_reads = MaxTimeout + 1
    /\ (sw_status \div 128) % 2 = 1

\* an uncapped wait is still polling after more reads than any cap allows
C28_UncappedWitness ==
    /\ sw_pc = "polling"
    /\ sw_timeout <= 0
    /\ sw_reads = MaxTimeout + 3

\* ------------------------------------------------------------------------
\* Claims on the frame of the byte-range calls
\* ------------------------------------------------------------------------
\* a request like write(offset=100, size=100): unaligned and wholly inside
\* one sector, ending before the sector does
InsideOneSector ==
    /\ cur.offset % SectorSize # 0
    /\ cur.size >= 1
    /\ (cur.offset % SectorSize) + cur.size < SectorSize

\* C29: a returned write_ata within capacity has changed no byte of the
\* medium outside [offset, offset + size).
C29_WriteFrame ==
    (pc = "returned" /\ cur.op = "write_ata" /\ cur.size >= 1
        /\ cur.offset + cur.size <= HdaCapacity)
        => \A a \in 0..(NumSectors * SectorSize - 1) :
              (a < cur.offset \/ a >= cur.offset + cur.size)
                  => FlatByte(disk, a) = FlatByte(cur.disk0, a)

\* C29, the case the claim names: the same for the requests that lie inside
\* one sector.
C29_WriteFrameInsideSector ==
    InsideOneSector => C29_WriteFrame

\* C30: a returned read_ata / read_atapi has stored only into
\* buffer[0 .. ret), and a returned write_ata has loaded only from
\* buffer[0 .. size).
C30_BufferBounds ==
    (pc = "returned" /\ cur.op \in Ops)
        => \A i \in touched : i < (IF cur.op = "write_ata" THEN cur.size ELSE ret)

\* ------------------------------------------------------------------------
\* Claims on the sectors a byte-range call addresses
\* ------------------------------------------------------------------------
\* C31: every sector read_ata or write_ata reads or writes lies on the
\* device: its LBA is below capacity / sector size, also for a request that
\* was clamped and for a request at offset = capacity.
C31_SectorsOnDevice ==
    (cur.op \in {"read_ata", "write_ata"})
        => \A i \in DOMAIN xfers : xfers[i].lba < HdaCapacity \div SectorSize

\* sectors that overlap [offset, offset + size) of the current request
Overlapping ==
    IF cur.size = 0 THEN 0
    ELSE ((cur.offset + cur.size - 1) \div SectorSize) - (cur.offset \div SectorSize) + 1

\* sector transfers of one direction the current call has issued
Transfers(dir) == Cardinality({i \in DOMAIN xfers : xfers[i].dir = dir})

\* C32: for a request with offset + size <= capacity read_ata issues at most
\* as many sector reads, and write_ata at most as many sector writes, as
\* there are sectors overlapping the range; the block arithmetic does not
\* wrap into a runaway whole-sector loop.
C32_BoundedTransfers ==
    /\ (cur.op = "read_ata" /\ cur.offset + cur.size <= HdaCapacity)
          => Transfers("r") <= Overlapping
    /\ (cur.op = "write_ata" /\ cur.offset + cur.size <= HdaCapacity)
          => Transfers("w") <= Overlapping

\* C32, the case the claim names: a range that ends inside sector 0.
C32_BoundedInsideSectorZero ==
    (cur.offset = 0 /\ cur.size > 0 /\ cur.size < SectorSize) => C32_BoundedTransfers

\* ------------------------------------------------------------------------
\* Claims on concurrent writers of one sector
\* ------------------------------------------------------------------------
BothDone(kind) == \A p \in Callers : m_kind[p] = kind /\ m_pc[p] = "done"

\* C33: after two concurrent write_ata calls to disjoint ranges of one
\* sector have both returned, each range holds the bytes its caller wrote.
C33_BothUpdatesKept ==
    BothDone("partial")
        => \A p \in Callers : \A k \in Own(p) : m_disk[k] = CallerSector(p)[k]

\* C34: two concurrent whole-sector writes of different data to one sector
\* both return in the end, under fair scheduling.
C34_BothReturn ==
    [](( \A p \in Callers : m_kind[p] = "full") => <>(\A p \in Callers : m_pc[p] = "done"))

\* ------------------------------------------------------------------------
\* Claims on the legacy PIO driver (specification SpecPio)

\* C35: ata_device_read_sector of the legacy driver issues READ PIO at most 5
\* times per call; it holds ata_lock from the first command to the return
\* without releasing it in between; a call that returns after its fifth
\* failed advanced wait has read no data word and has released the lock; a
\* call that returns otherwise has read exactly 256 words after its first
\* successful wait and has released the lock
C35_PioReadRetries ==
    \A p \in Callers :
        /\ pio_cmds[p] <= 5
        /\ ppc[p] \in {"command", "wait"} => (pio_lock = p /\ pio_unlocks[p] = 0 /\ pio_words[p] = 0)
        /\ ppc[p] = "returned" =>
              /\ pio_lock # p
              /\ pio_unlocks[p] = 1
              /\ IF errors[p] >= 5
                 THEN errors[p] = 5 /\ pio_cmds[p] = 5 /\ pio_words[p] = 0
                 ELSE pio_cmds[p] = errors[p] + 1 /\ pio_words[p] = 256

\* one caller gave up after five failed waits, the other got its sector on
\* the third command
C35_Witness ==
    /\ ppc["a"] = "returned" /\ errors["a"] = 5 /\ pio_words["a"] = 0
    /\ ppc["b"] = "returned" /\ errors["b"] = 2 /\ pio_words["b"] = 256

\* the device byte at flat address a
LgByte(d, a) == d[a \div SectorSize][a % SectorSize]

\* the request starts inside a sector and ends inside the sector after it
EndsInsideNextSector ==
    /\ lg_req.offset % SectorSize # 0
    /\ (lg_req.offset + lg_req.size) % SectorSize # 0
    /\ (lg_req.offset + lg_req.size - 1) \div SectorSize = lg_req.offset \div SectorSize + 1

\* C36: when the legacy write_ata has returned from an unaligned request that
\* ends inside the sector right after its first sector, every device byte
\* outside [offset, offset + size) has the value it had before the call
C36_LegacyWriteFrame ==
    (lg_pc = "returned" /\ EndsInsideNextSector /\ lg_req.offset + lg_req.size <= ata_max_offset(hda))
        => \A a \in 0..(NumSectors * SectorSize - 1) :
              (a < lg_req.offset \/ a >= lg_req.offset + lg_req.size)
                  => LgByte(lg_disk, a) = LgByte(InitDisk, a)

\* ------------------------------------------------------------------------
\* Claims on the interrupt-enable state (specification SpecIrq)

\* C37: interrupts are enabled while ata_device_read_sector of the DMA driver
\* spins, and when the call has returned the interrupt-enable flag is what it
\* was when the call was entered
C37_IrqStateRestored ==
    /\ (iq_path = "dma_read" /\ iq_pc = "r_spin") => int_on
    /\ (iq_path \in {"dma_read", "dma_read_atapi"} /\ iq_pc = "returned") => int_on = iq_entry

\* ------------------------------------------------------------------------
\* Claims on the unix pipe (specification SpecPipe)

\* the bytes the read in progress has stored so far
InFlight == IF rd_pc \in {"loop", "ring_read"} THEN Got(rd_read) ELSE <<>>

\* C38: the bytes handed to readers, then the bytes of the read in progress,
\* then the unread bytes of the ring are exactly the bytes written, in the
\* order written; a read that has returned returned at most size; and a read
\* whose loop finds the write end closed and the ring empty returns the
\* count read so far at that point
C38_EndOfFile ==
    /\ [](delivered \o InFlight \o ring = written_all)
    /\ [](rd_pc = "returned" => rd_ret <= rd_size)
    /\ [][(rd_pc = "loop" /\ rd_pc' # "loop" /\ write_closed /\ ring = <<>>)
             => (rd_pc' = "returned" /\ rd_ret' = rd_read)]_vars

\* two bytes were written and read, the write end was closed, and a later
\* read of up to two bytes returned 0
C38_Witness ==
    /\ write_closed /\ ring = <<>>
    /\ Len(written_all) >= 2 /\ delivered = written_all
    /\ rd_pc = "returned" /\ rd_size = 2 /\ rd_ret = 0

\* C39 as stated: a write_unixpipe entered with the read end closed has sent
\* SIGPIPE and returned 0
C39_SigpipeOnClosed ==
    (wr_pc = "returned" /\ wr_entry_closed) => (wr_sig /\ wr_ret = 0)

\* C39: a write_unixpipe of at least one byte entered with the read end
\* closed has sent SIGPIPE and returned 0; every call returns the number of
\* bytes it put into the ring, sends SIGPIPE only with the read end closed,
\* and returns short only with SIGPIPE; after SIGPIPE the call puts no byte
\* into the ring; read_closed and write_closed stay set
C39_SigpipeOnClosedNonEmpty ==
    /\ []((wr_pc = "returned" /\ wr_entry_closed /\ Len(wr_data) > 0) => (wr_sig /\ wr_ret = 0))
    /\ [](wr_pc = "returned" =>
             /\ wr_ret = wr_written
             /\ wr_sig => read_closed
             /\ wr_ret < Len(wr_data) => wr_sig)
    /\ [][(wr_sig /\ wr_sig') => written_all' = written_all]_vars
    /\ [][(read_closed => read_closed') /\ (write_closed => write_closed')]_vars

\* a two-byte write on a pipe whose read end was closed got SIGPIPE
C39_Witness ==
    wr_pc = "returned" /\ wr_entry_closed /\ Len(wr_data) = 2 /\ wr_sig /\ wr_ret = 0

\* C40: a read_unixpipe that has returned took exactly the returned bytes
\* out of the ring; a newline among them is the last of them; and with no
\* newline among them and the write end open the count is size
C40_LineDelimited ==
    rd_pc = "returned" =>
        /\ rd_taken = rd_ret
        /\ \A i \in 1..rd_ret : rd_buf[i] = 10 => i = rd_ret
        /\ ((\A i \in 1..rd_ret : rd_buf[i] # 10) /\ ~write_closed) => rd_ret = rd_size

\* a read of two bytes returned 1 at a newline and left a byte in the ring
C40_Witness ==
    /\ rd_pc = "returned" /\ rd_size = 2 /\ rd_ret = 1 /\ rd_buf[1] = 10
    /\ Len(ring) >= 1

====
